---- MODULE Spec2Model ----
(***************************************************************************)
(* Token issuing, token verification and bearer authentication of the      *)
(* gateway: tokenManager (generateToken / verifyToken / refreshTokens),    *)
(* rinTokenManager (generateRinToken / verifyRinToken), the rinAuth        *)
(* middleware and the token-issuing routes.                                *)
(*                                                                         *)
(* A JWT is modelled by its header algorithm, its payload and its          *)
(* signature; the signature is the triple (secret, algorithm, payload) an  *)
(* HMAC is computed from, so that a signature checks out exactly when the  *)
(* verifier recomputes it from the same secret over the same content.      *)
(***************************************************************************)
EXTENDS Integers, Sequences, FiniteSets, TLC

(* ------------------------------------------------------------------ *)
(* Bounds of the model                                                  *)
(* ------------------------------------------------------------------ *)
ClockStep == 1200
MaxTime == 3600
MaxIssued == 2

(* ------------------------------------------------------------------ *)
(* JavaScript values                                                    *)
(* ------------------------------------------------------------------ *)
Undefined == "undefined"
\* a member every plain object inherits from Object.prototype
ProtoFunction == "function Object() { [native code] }"
ObjectPrototypeKeys == {"constructor"}

Falsy(v) == v \in {Undefined, ""}

\* JSON.stringify drops a property whose value is a function
JsonValue(v) == IF v = ProtoFunction THEN Undefined ELSE v

(* ------------------------------------------------------------------ *)
(* Configuration                                                        *)
(* ------------------------------------------------------------------ *)
RinApiKey == "rin-api-key"
RinSecret == "rin-secret"
RinAccessTokenExpiry == 3600
RinAlgorithm == "HS256"
RinIssuer == "rin-service"
RinAudience == "rin-client"

AccessAlgorithm == "HS256"
AccessIssuer == "auth-service"
AccessAudience == "api-clients"
RefreshAlgorithm == "HS256"

ClientIds == {"client-a", "client-b"}

NoScopes == {Undefined}

NoConfig ==
    [apiKey |-> Undefined, secret |-> Undefined, scopes |-> NoScopes,
     accessTokenExpiry |-> 0, refreshTokenExpiry |-> 0]

Clients ==
    [c \in ClientIds |->
        IF c = "client-a"
        THEN [apiKey |-> "key-a", secret |-> "secret-a", scopes |-> {"chat"},
              accessTokenExpiry |-> 1200, refreshTokenExpiry |-> 2400]
        ELSE [apiKey |-> "key-b", secret |-> "secret-b", scopes |-> {"chat", "admin"},
              accessTokenExpiry |-> 2400, refreshTokenExpiry |-> 3600]]

\* config.auth.clients[id]: an own entry, a member inherited from
\* Object.prototype (truthy, and without any of the fields), or undefined
ClientsGet(id) ==
    IF id \in ClientIds THEN [found |-> "own", cfg |-> Clients[id]]
    ELSE IF id \in ObjectPrototypeKeys THEN [found |-> "inherited", cfg |-> NoConfig]
    ELSE [found |-> "undefined", cfg |-> NoConfig]

(* ------------------------------------------------------------------ *)
(* jsonwebtoken                                                         *)
(* ------------------------------------------------------------------ *)
EmptyPayload ==
    [clientId |-> Undefined, service |-> Undefined, type |-> Undefined,
     scopes |-> NoScopes, sessionId |-> Undefined,
     iss |-> Undefined, aud |-> Undefined, iat |-> 0, exp |-> 0]

\* the signing input of a token: its header and payload, field by field
SigningInput(alg, p) ==
    <<alg, p.clientId, p.service, p.type, p.scopes, p.sessionId,
      p.iss, p.aud, p.iat, p.exp>>

\* the signature of a token: the HMAC of its signing input under a secret
Hmac(secret, alg, payload) == [k |-> secret, mac |-> SigningInput(alg, payload)]

NoSignature == [k |-> Undefined, mac |-> <<>>]

\* a string that is not three dot-separated base64 parts
Malformed ==
    [form |-> "malformed", alg |-> Undefined, payload |-> EmptyPayload,
     sig |-> NoSignature]

DefaultAlgorithm == "HS256"
DefaultHmacAlgorithms == {"HS256", "HS384", "HS512"}

\* jwt.sign(claims, secret, {expiresIn, algorithm, issuer, audience}) at time t;
\* an option left out is Undefined
jwtSign(claims, secret, expiresIn, algorithm, issuer, audience, t) ==
    LET alg == IF algorithm = Undefined THEN DefaultAlgorithm ELSE algorithm
        p == [clientId |-> JsonValue(claims.clientId),
              service |-> JsonValue(claims.service),
              type |-> claims.type,
              scopes |-> claims.scopes,
              sessionId |-> claims.sessionId,
              iss |-> issuer, aud |-> audience,
              iat |-> t, exp |-> t + expiresIn]
    IN [form |-> "jwt", alg |-> alg, payload |-> p, sig |-> Hmac(secret, alg, p)]

\* jwt.decode(token): the payload, unverified; null for a malformed token
jwtDecode(token) ==
    IF token.form = "jwt" THEN [isNull |-> FALSE, payload |-> token.payload]
    ELSE [isNull |-> TRUE, payload |-> EmptyPayload]

VerifyError(msg) == [err |-> msg, payload |-> EmptyPayload]

\* jwt.verify as it would be with the check of exp left out
jwtVerify_IgnoreExpiration(token, secret, algorithms, issuer, audience, t) ==
    LET hasSignature == token.sig # NoSignature
        algs == IF algorithms # {} THEN algorithms
                ELSE IF ~hasSignature THEN {"none"} ELSE DefaultHmacAlgorithms
        signatureValid ==
            IF token.alg = "none" THEN ~hasSignature
            ELSE token.sig = Hmac(secret, token.alg, token.payload)
    IN IF token.form # "jwt" THEN VerifyError("jwt malformed")
       ELSE IF ~hasSignature /\ secret # Undefined
            THEN VerifyError("jwt signature is required")
       ELSE IF hasSignature /\ secret = Undefined
            THEN VerifyError("secret or public key must be provided")
       ELSE IF token.alg \notin algs THEN VerifyError("invalid algorithm")
       ELSE IF ~signatureValid THEN VerifyError("invalid signature")
       ELSE IF audience # Undefined /\ token.payload.aud # audience
            THEN VerifyError("jwt audience invalid")
       ELSE IF issuer # Undefined /\ token.payload.iss # issuer
            THEN VerifyError("jwt issuer invalid")
       ELSE [err |-> "none", payload |-> token.payload]

\* jwt.verify(token, secret, {algorithms, issuer, audience}) at time t: the
\* payload, or the error it throws. algorithms = {} is the option left out.
jwtVerify(token, secret, algorithms, issuer, audience, t) ==
    LET hasSignature == token.sig # NoSignature
        algs == IF algorithms # {} THEN algorithms
                ELSE IF ~hasSignature THEN {"none"} ELSE DefaultHmacAlgorithms
        signatureValid ==
            IF token.alg = "none" THEN ~hasSignature
            ELSE token.sig = Hmac(secret, token.alg, token.payload)
    IN IF token.form # "jwt" THEN VerifyError("jwt malformed")
       ELSE IF ~hasSignature /\ secret # Undefined
            THEN VerifyError("jwt signature is required")
       ELSE IF hasSignature /\ secret = Undefined
            THEN VerifyError("secret or public key must be provided")
       ELSE IF token.alg \notin algs THEN VerifyError("invalid algorithm")
       ELSE IF ~signatureValid THEN VerifyError("invalid signature")
       ELSE IF t >= token.payload.exp THEN VerifyError("jwt expired")
       ELSE IF audience # Undefined /\ token.payload.aud # audience
            THEN VerifyError("jwt audience invalid")
       ELSE IF issuer # Undefined /\ token.payload.iss # issuer
            THEN VerifyError("jwt issuer invalid")
       ELSE [err |-> "none", payload |-> token.payload]

(* ------------------------------------------------------------------ *)
(* tokenManager: generateToken, verifyToken, refreshTokens              *)
(* ------------------------------------------------------------------ *)
\* validApiKeys[apiKey]: the object built from the registry by reduce
validApiKeys(apiKey) ==
    IF \E c \in ClientIds : Clients[c].apiKey = apiKey
    THEN CHOOSE c \in ClientIds : Clients[c].apiKey = apiKey
    ELSE IF apiKey \in ObjectPrototypeKeys THEN ProtoFunction
    ELSE Undefined

NoTokens == [accessToken |-> Malformed, refreshToken |-> Malformed, expiresIn |-> 0]

Thrown(msg) == [kind |-> "throw", error |-> msg, tokens |-> NoTokens]

\* generateToken as it would be with the access token signed like the refresh
\* token, without issuer and audience
generateToken_NoIssuer(apiKey, t) ==
    LET clientId == validApiKeys(apiKey)
        entry == ClientsGet(clientId)
        clientConfig == entry.cfg
    IN IF Falsy(clientId) THEN Thrown("Invalid API key")
       ELSE IF entry.found = "undefined"
            THEN Thrown("TypeError: Cannot read properties of undefined")
       ELSE [kind |-> "ok", error |-> "none",
             tokens |->
               [accessToken |->
                  jwtSign([EmptyPayload EXCEPT !.clientId = clientId,
                                               !.type = "access",
                                               !.scopes = clientConfig.scopes],
                          clientConfig.secret, clientConfig.accessTokenExpiry,
                          AccessAlgorithm, Undefined, Undefined, t),
                refreshToken |->
                  jwtSign([EmptyPayload EXCEPT !.clientId = clientId,
                                               !.type = "refresh"],
                          clientConfig.secret, clientConfig.refreshTokenExpiry,
                          RefreshAlgorithm, Undefined, Undefined, t),
                expiresIn |-> clientConfig.accessTokenExpiry]]

\* generateToken(apiKey) at time t
generateToken(apiKey, t) ==
    LET clientId == validApiKeys(apiKey)
        entry == ClientsGet(clientId)
        clientConfig == entry.cfg
    IN IF Falsy(clientId) THEN Thrown("Invalid API key")
       ELSE IF entry.found = "undefined"
            THEN Thrown("TypeError: Cannot read properties of undefined")
       ELSE [kind |-> "ok", error |-> "none",
             tokens |->
               [accessToken |->
                  jwtSign([EmptyPayload EXCEPT !.clientId = clientId,
                                               !.type = "access",
                                               !.scopes = clientConfig.scopes],
                          clientConfig.secret, clientConfig.accessTokenExpiry,
                          AccessAlgorithm, AccessIssuer, AccessAudience, t),
                refreshToken |->
                  jwtSign([EmptyPayload EXCEPT !.clientId = clientId,
                                               !.type = "refresh"],
                          clientConfig.secret, clientConfig.refreshTokenExpiry,
                          RefreshAlgorithm, Undefined, Undefined, t),
                expiresIn |-> clientConfig.accessTokenExpiry]]

Null == [kind |-> "null", claims |-> EmptyPayload]

\* verifyToken's try block as it would be without the check of the token type
verifyTokenTry_NoTypeCheck(token, expectedType, t) ==
    LET decoded == jwtDecode(token)
        entry == ClientsGet(decoded.payload.clientId)
        verified == jwtVerify(token, entry.cfg.secret,
                        {IF expectedType = "access" THEN AccessAlgorithm
                                                    ELSE RefreshAlgorithm},
                        IF expectedType = "access" THEN AccessIssuer ELSE Undefined,
                        IF expectedType = "access" THEN AccessAudience ELSE Undefined,
                        t)
    IN IF decoded.isNull \/ Falsy(decoded.payload.clientId) THEN Null
       ELSE IF entry.found = "undefined" THEN Null
       ELSE IF verified.err # "none" THEN [kind |-> "throw", claims |-> EmptyPayload]
       ELSE [kind |-> "claims", claims |-> verified.payload]

\* verifyToken's try block as it would be with one secret for every client
verifyTokenTry_SharedSecret(token, expectedType, t) ==
    LET decoded == jwtDecode(token)
        entry == ClientsGet(decoded.payload.clientId)
        verified == jwtVerify(token, Clients["client-b"].secret,
                        {IF expectedType = "access" THEN AccessAlgorithm
                                                    ELSE RefreshAlgorithm},
                        IF expectedType = "access" THEN AccessIssuer ELSE Undefined,
                        IF expectedType = "access" THEN AccessAudience ELSE Undefined,
                        t)
    IN IF decoded.isNull \/ Falsy(decoded.payload.clientId) THEN Null
       ELSE IF entry.found = "undefined" THEN Null
       ELSE IF verified.err # "none" THEN [kind |-> "throw", claims |-> EmptyPayload]
       ELSE IF verified.payload.type # expectedType THEN Null
       ELSE [kind |-> "claims", claims |-> verified.payload]

\* verifyToken's try block as it would be with issuer and audience never passed
verifyTokenTry_NoIssuerAudience(token, expectedType, t) ==
    LET decoded == jwtDecode(token)
        entry == ClientsGet(decoded.payload.clientId)
        verified == jwtVerify(token, entry.cfg.secret,
                        {IF expectedType = "access" THEN AccessAlgorithm
                                                    ELSE RefreshAlgorithm},
                        Undefined, Undefined, t)
    IN IF decoded.isNull \/ Falsy(decoded.payload.clientId) THEN Null
       ELSE IF entry.found = "undefined" THEN Null
       ELSE IF verified.err # "none" THEN [kind |-> "throw", claims |-> EmptyPayload]
       ELSE IF verified.payload.type # expectedType THEN Null
       ELSE [kind |-> "claims", claims |-> verified.payload]

\* the body of verifyToken's try block: claims, null, or the error thrown in it
verifyTokenTry(token, expectedType, t) ==
    LET decoded == jwtDecode(token)
        entry == ClientsGet(decoded.payload.clientId)
        verified == jwtVerify(token, entry.cfg.secret,
                        {IF expectedType = "access" THEN AccessAlgorithm
                                                    ELSE RefreshAlgorithm},
                        IF expectedType = "access" THEN AccessIssuer ELSE Undefined,
                        IF expectedType = "access" THEN AccessAudience ELSE Undefined,
                        t)
    IN IF decoded.isNull \/ Falsy(decoded.payload.clientId) THEN Null
       ELSE IF entry.found = "undefined" THEN Null
       ELSE IF verified.err # "none" THEN [kind |-> "throw", claims |-> EmptyPayload]
       ELSE IF verified.payload.type # expectedType THEN Null
       ELSE [kind |-> "claims", claims |-> verified.payload]

\* verifyToken as it would be without the try/catch around its body
verifyToken_NoCatch(token, expectedType, t) ==
    verifyTokenTry(token, expectedType, t)

\* verifyToken(token, expectedType) at time t: the catch clause returns null
verifyToken(token, expectedType, t) ==
    LET r == verifyTokenTry(token, expectedType, t)
    IN IF r.kind = "throw" THEN Null ELSE r

\* refreshTokens as it would be with expectedType left to its default, access
refreshTokens_DefaultType(refreshToken, t) ==
    LET verified == verifyToken(refreshToken, "access", t)
    IN IF verified.kind # "claims" THEN Thrown("Invalid refresh token")
       ELSE generateToken(ClientsGet(verified.claims.clientId).cfg.apiKey, t)

\* refreshTokens(refreshToken) at time t
refreshTokens(refreshToken, t) ==
    LET verified == verifyToken(refreshToken, "refresh", t)
    IN IF verified.kind # "claims" THEN Thrown("Invalid refresh token")
       ELSE generateToken(ClientsGet(verified.claims.clientId).cfg.apiKey, t)

(* ------------------------------------------------------------------ *)
(* rinTokenManager: generateRinToken, verifyRinToken                    *)
(* ------------------------------------------------------------------ *)
RinService == "rin-chat"

\* validRinApiKeys[apiKey]
validRinApiKeys(apiKey) ==
    IF apiKey = RinApiKey THEN RinService
    ELSE IF apiKey \in ObjectPrototypeKeys THEN ProtoFunction
    ELSE Undefined

\* generateRinToken(apiKey) at time t; uuid is the value of crypto.randomUUID()
generateRinToken(apiKey, uuid, t) ==
    LET service == validRinApiKeys(apiKey)
    IN IF Falsy(service) THEN Thrown("Invalid Rin API key")
       ELSE [kind |-> "ok", error |-> "none",
             tokens |->
               [accessToken |->
                  jwtSign([EmptyPayload EXCEPT !.service = service,
                                               !.type = "access",
                                               !.sessionId = uuid],
                          RinSecret, RinAccessTokenExpiry,
                          RinAlgorithm, RinIssuer, RinAudience, t),
                refreshToken |-> Malformed,
                expiresIn |-> RinAccessTokenExpiry]]

\* the body of verifyRinToken's try block
verifyRinTokenTry(token, t) ==
    LET decoded == jwtDecode(token)
        verified == jwtVerify(token, RinSecret, {RinAlgorithm},
                              RinIssuer, RinAudience, t)
    IN IF decoded.isNull \/ Falsy(decoded.payload.service) THEN Null
       ELSE IF verified.err # "none" THEN [kind |-> "throw", claims |-> EmptyPayload]
       ELSE IF verified.payload.type # "access" \/ verified.payload.service # RinService
            THEN Null
       ELSE [kind |-> "claims", claims |-> verified.payload]

\* verifyRinToken(token) at time t: the catch clause returns null
verifyRinToken(token, t) ==
    LET r == verifyRinTokenTry(token, t)
    IN IF r.kind = "throw" THEN Null ELSE r

(* ------------------------------------------------------------------ *)
(* rinAuth: the bearer middleware                                       *)
(* ------------------------------------------------------------------ *)
NoHeader == [scheme |-> "none", token |-> Malformed]
Bearer(token) == [scheme |-> "Bearer", token |-> token]
Basic(token) == [scheme |-> "Basic", token |-> token]

\* authenticateRinToken(req, res, next) at time t: next() with req.user set,
\* or the 401 response
authenticateRinToken(authHeader, t) ==
    LET decoded == jwtVerify(authHeader.token, RinSecret, {},
                             RinIssuer, RinAudience, t)
    IN IF authHeader.scheme # "Bearer"
       THEN [next |-> FALSE, status |-> 401, message |-> "No token provided",
             user |-> EmptyPayload]
       ELSE IF decoded.err # "none"
       THEN [next |-> FALSE, status |-> 401, message |-> "Invalid token",
             user |-> EmptyPayload]
       ELSE [next |-> TRUE, status |-> 0, message |-> "", user |-> decoded.payload]

(* ------------------------------------------------------------------ *)
(* The token-issuing routes                                             *)
(* ------------------------------------------------------------------ *)
\* router.post('/token'): the response to a body carrying apiKey
postToken(apiKey, uuid, t) ==
    LET r == generateRinToken(apiKey, uuid, t)
    IN IF Falsy(apiKey)
       THEN [status |-> 400, error |-> "API key is required", accessToken |-> {}]
       ELSE IF r.kind = "throw"
       THEN [status |-> 401, error |-> r.error, accessToken |-> {}]
       ELSE [status |-> 200, error |-> "none", accessToken |-> {r.tokens.accessToken}]

\* router.post('/auth') of rinRoutes: the response (the body is not read)
postAuth(uuid, t) ==
    [status |-> 200, error |-> "none",
     accessToken |->
        {jwtSign([EmptyPayload EXCEPT !.service = RinService,
                                      !.type = "access",
                                      !.sessionId = uuid],
                 RinSecret, RinAccessTokenExpiry,
                 Undefined, RinIssuer, RinAudience, t)}]

(* ------------------------------------------------------------------ *)
(* rateLimiter: one express-rate-limit limiter per endpoint class      *)
(* ------------------------------------------------------------------ *)
rateLimiters ==
    [auth    |-> [windowMs |-> 5 * 60 * 1000, max |-> 20,
                  message |-> "Too many auth requests, please try again later."],
     session |-> [windowMs |-> 5 * 60 * 1000, max |-> 20,
                  message |-> "Too many session requests, please try again later."],
     chat    |-> [windowMs |-> 60 * 1000, max |-> 30,
                  message |-> "Too many chat requests, please try again later."],
     history |-> [windowMs |-> 60 * 1000, max |-> 30,
                  message |-> "Too many history requests, please try again later."]]

RateClasses == DOMAIN rateLimiters

\* getRateLimiter(endpoint): the name of the limiter the route gets
getRateLimiter(endpoint) ==
    IF endpoint \in RateClasses THEN endpoint ELSE "chat"

\* where requests come from: behind the proxy req.ip is set, else only the
\* socket's address is known
Addresses == {"10.0.0.1", "10.0.0.2"}
Origins ==
    {[ip |-> "10.0.0.1", remoteAddress |-> "10.0.0.1"],
     [ip |-> Undefined, remoteAddress |-> "10.0.0.2"]}

\* keyGenerator: (req) => req.ip || req.connection.remoteAddress || 'default'
keyGenerator(req) ==
    IF ~Falsy(req.ip) THEN req.ip
    ELSE IF ~Falsy(req.remoteAddress) THEN req.remoteAddress
    ELSE "default"

RateKeys == Addresses \cup {"default"}

\* the memory store of a limiter: hits per key, all cleared when the window ends
EmptyStore == [k \in RateKeys |-> 0]
FreshStores == [c \in RateClasses |-> EmptyStore]
FreshWindows == [c \in RateClasses |-> 0]
NeverDenied == [c \in RateClasses |-> [k \in RateKeys |-> -1]]

\* store.increment(key)
increment(store, key) == [store EXCEPT ![key] = @ + 1]

\* the start of the window that holds time t (seconds), for a limiter whose
\* window began at ws: the interval timer has cleared the store at every
\* windowMs since
windowAt(class, ws, t) ==
    LET w == rateLimiters[class].windowMs
    IN IF t * 1000 >= ws + w THEN ws + w * ((t * 1000 - ws) \div w) ELSE ws

\* the stores at time t: resetAll() has run for every window that ended
resetAll_Never(h, ws, t) == h
resetAll(h, ws, t) ==
    [c \in RateClasses |-> IF windowAt(c, ws[c], t) # ws[c] THEN EmptyStore ELSE h[c]]

\* the middleware rateLimit(options) of a class, on a request: the store
\* after it, and next() or the 429 response
rateLimit_NoLimit(class, h, req) ==
    [hits |-> [h EXCEPT ![class] = increment(@, keyGenerator(req))],
     key |-> keyGenerator(req), next |-> TRUE, status |-> 0, message |-> ""]
rateLimit_SharedStore(class, h, req) ==
    LET key == keyGenerator(req)
        over == h[class][key] + 1 > rateLimiters[class].max
    IN [hits |-> [c \in RateClasses |-> increment(h[c], key)],
        key |-> key,
        next |-> ~over,
        status |-> IF over THEN 429 ELSE 0,
        message |-> IF over THEN rateLimiters[class].message ELSE ""]
rateLimit(class, h, req) ==
    LET key == keyGenerator(req)
        store == increment(h[class], key)
        over == store[key] > rateLimiters[class].max
    IN [hits |-> [h EXCEPT ![class] = store],
        key |-> key,
        next |-> ~over,
        status |-> IF over THEN 429 ELSE 0,
        message |-> IF over THEN rateLimiters[class].message ELSE ""]

(* ------------------------------------------------------------------ *)
(* The middleware chains of the routes                                  *)
(* ------------------------------------------------------------------ *)
\* the limiter each protected route asks for
RouteLimiter(endpoint) ==
    CASE endpoint = "session/init" -> getRateLimiter("session")
      [] endpoint = "chat" -> getRateLimiter("chat")
      [] endpoint = "history" -> getRateLimiter("history")

\* req.body of a request that carries none of the fields the handlers read
NoBody == [sessionId |-> Undefined, message |-> Undefined]

NoRequest ==
    [route |-> "none", class |-> "none", key |-> Undefined, ip |-> Undefined,
     authorization |-> NoHeader, apiKey |-> Undefined, at |-> 0,
     remoteAddress |-> Undefined,
     stage |-> "none", status |-> 0, verified |-> FALSE, counted |-> FALSE,
     before |-> 0, lastDenied |-> -1, user |-> EmptyPayload,
     param |-> Undefined, reply |-> "none", sessionId |-> Undefined,
     historyOf |-> Undefined, repeated |-> FALSE,
     body |-> NoBody, downstream |-> FALSE, upstream |-> 0, result |-> "none",
     details |-> Undefined]

\* router.post|get(path, authenticateRinToken, getRateLimiter(name), handler):
\* how far a request gets and what the stores hold after it
protectedRoute(endpoint, req, h, t) ==
    LET class == RouteLimiter(endpoint)
        a == authenticateRinToken(req.authorization, t)
        l == rateLimit(class, h, req)
        base == [NoRequest EXCEPT !.route = endpoint, !.class = class,
                                  !.key = l.key, !.ip = req.ip,
                                  !.remoteAddress = req.remoteAddress,
                                  !.authorization = req.authorization, !.at = t,
                                  !.before = h[class][l.key],
                                  !.verified = req.authorization.scheme = "Bearer"]
    IN IF ~a.next
       THEN [hits |-> h,
             resp |-> [base EXCEPT !.stage = "auth", !.status = a.status]]
       ELSE IF ~l.next
       THEN [hits |-> l.hits,
             resp |-> [base EXCEPT !.stage = "limiter", !.status = l.status,
                                   !.counted = TRUE, !.user = a.user]]
       ELSE [hits |-> l.hits,
             resp |-> [base EXCEPT !.stage = "handler", !.counted = TRUE,
                                   !.user = a.user]]

\* the downstream service's answer to GET /api/history/<sessionId>: an error,
\* or the history it keeps for that session once the session has been
\* announced to it; it is told nothing about the caller
NoReply == [ok |-> FALSE, history |-> Undefined]
pythonHistory(sessionId, announced) ==
    {NoReply} \cup
    (IF sessionId \in announced THEN {[ok |-> TRUE, history |-> sessionId]} ELSE {})

\* the downstream service's answer to POST /api/session/init
pythonSessionInit == {NoReply, [ok |-> TRUE, history |-> Undefined]}

\* the handler of POST /session/init: the response
sessionInitHandler_HardFail(user, reply) ==
    IF reply.ok
    THEN [status |-> 200, sessionId |-> user.sessionId, message |-> "Session initialized"]
    ELSE [status |-> 500, sessionId |-> Undefined, message |-> "Failed to initialize session"]
sessionInitHandler(user, reply) ==
    [status |-> 200, sessionId |-> user.sessionId, message |-> "Session initialized"]

\* the handler of /history/:sessionId: the response
historyHandler_Fails(sessionId, reply) ==
    [status |-> 500, history |-> Undefined, message |-> "Failed to fetch history"]
historyHandler(sessionId, reply) ==
    IF reply.ok
    THEN [status |-> 200, history |-> reply.history, message |-> ""]
    ELSE [status |-> 500, history |-> Undefined, message |-> "Failed to fetch history"]

\* the downstream service's answer to POST /api/chat: a reply, an error
\* response with a status code and a detail, or no response at all
DownstreamStatus == 503
pythonChat ==
    {[ok |-> TRUE, status |-> 200, detail |-> Undefined, message |-> ""],
     [ok |-> FALSE, status |-> DownstreamStatus, detail |-> "Service unavailable",
      message |-> "Request failed with status code"],
     [ok |-> FALSE, status |-> 0, detail |-> Undefined, message |-> "connect ECONNREFUSED"]}

\* the handler of POST /chat of rinRoutes.js: the response, and whether
\* axios.post was called; reply is read only when it was
chatHandler_Unvalidated(body, reply) ==
    IF reply.ok
    THEN [status |-> 200, result |-> "success", downstream |-> TRUE,
          message |-> "", details |-> Undefined]
    ELSE [status |-> 500, result |-> "error", downstream |-> TRUE,
          message |-> "Failed to process message",
          details |-> IF Falsy(reply.detail) THEN reply.message ELSE reply.detail]
chatHandler(body, reply) ==
    IF Falsy(body.sessionId) \/ Falsy(body.message)
    THEN [status |-> 400, result |-> "error", downstream |-> FALSE,
          message |-> "Missing sessionId or message", details |-> Undefined]
    ELSE IF reply.ok
    THEN [status |-> 200, result |-> "success", downstream |-> TRUE,
          message |-> "", details |-> Undefined]
    ELSE [status |-> 500, result |-> "error", downstream |-> TRUE,
          message |-> "Failed to process message",
          details |-> IF Falsy(reply.detail) THEN reply.message ELSE reply.detail]

\* router.post('/chat', authenticateRinToken, handler) of pythonApi.js: the
\* response, and whether axios.post was called with req.body
pythonApiChat(authorization, body, reply, t) ==
    LET a == authenticateRinToken(authorization, t)
        base == [NoRequest EXCEPT !.route = "pythonApi/chat",
                                  !.authorization = authorization, !.at = t,
                                  !.body = body,
                                  !.verified = authorization.scheme = "Bearer"]
    IN IF ~a.next
       THEN [base EXCEPT !.stage = "auth", !.status = a.status, !.result = "error"]
       ELSE IF reply.ok
       THEN [base EXCEPT !.stage = "handler", !.user = a.user, !.downstream = TRUE,
                         !.reply = "ok", !.upstream = reply.status,
                         !.status = 200, !.result = "success"]
       ELSE [base EXCEPT !.stage = "handler", !.user = a.user, !.downstream = TRUE,
                         !.reply = "error", !.upstream = reply.status,
                         !.status = IF reply.status = 0 THEN 500 ELSE reply.status,
                         !.result = "error",
                         !.details = IF Falsy(reply.detail)
                                     THEN "Chat request failed" ELSE reply.detail]

\* router.post('/token', getRateLimiter('auth'), handler)
tokenRoute(apiKey, uuid, req, h, t) ==
    LET class == getRateLimiter("auth")
        l == rateLimit(class, h, req)
        r == postToken(apiKey, uuid, t)
        base == [NoRequest EXCEPT !.route = "token", !.class = class,
                                  !.key = l.key, !.ip = req.ip,
                                  !.remoteAddress = req.remoteAddress, !.apiKey = apiKey,
                                  !.at = t, !.before = h[class][l.key],
                                  !.counted = TRUE]
    IN IF ~l.next
       THEN [hits |-> l.hits, out |-> {},
             resp |-> [base EXCEPT !.stage = "limiter", !.status = l.status]]
       ELSE [hits |-> l.hits, out |-> r.accessToken,
             resp |-> [base EXCEPT !.stage = "handler", !.status = r.status,
                                   !.verified = ~Falsy(apiKey)]]

(* ------------------------------------------------------------------ *)
(* RinChatService: the session store                                    *)
(* ------------------------------------------------------------------ *)
\* the values Math.random().toString(36).substring(2, 15) may take
SessionIds == {"s1", "s2"}

\* this.sessions = new Map(): a key is absent until set
NoSession == [present |-> FALSE, created |-> 0, history |-> <<>>]
EmptySessions == [id \in SessionIds |-> NoSession]

\* this.sessions.has(sessionId)
has(store, sessionId) == store[sessionId].present

Entry(role, content, t) == [role |-> role, content |-> content, timestamp |-> t]

\* what is said: a question sent through sendMessage, the downstream
\* service's reply to it, or a note appended directly; n tells them apart
Content(text, n) == [text |-> text, n |-> n]

\* initializeSession() when the random draw is sessionId, at time t
initializeSession(store, sessionId, t) ==
    [kind |-> "ok", error |-> "none",
     sessions |-> [store EXCEPT ![sessionId] =
                       [present |-> TRUE, created |-> t, history |-> <<>>]],
     out |-> [status |-> "success", sessionId |-> sessionId]]

\* addToHistory(sessionId, message, role) at time t
addToHistory_Replace(store, sessionId, message, role, t) ==
    IF ~has(store, sessionId)
    THEN [kind |-> "throw", error |-> "Invalid session", sessions |-> store]
    ELSE [kind |-> "ok", error |-> "none",
          sessions |-> [store EXCEPT ![sessionId].history = <<Entry(role, message, t)>>]]
addToHistory(store, sessionId, message, role, t) ==
    IF ~has(store, sessionId)
    THEN [kind |-> "throw", error |-> "Invalid session", sessions |-> store]
    ELSE [kind |-> "ok", error |-> "none",
          sessions |-> [store EXCEPT ![sessionId].history =
                                         Append(@, Entry(role, message, t))]]

\* getHistory(sessionId)
getHistory_EmptyOnMiss(store, sessionId) ==
    [kind |-> "ok", error |-> "none", history |-> store[sessionId].history]
getHistory(store, sessionId) ==
    IF ~has(store, sessionId)
    THEN [kind |-> "throw", error |-> "Invalid session", history |-> <<>>]
    ELSE [kind |-> "ok", error |-> "none", history |-> store[sessionId].history]

\* what sendMessage hands to axios.post: the path, the body, and the headers
\* that carry a credential; it passes no third argument, so there are none
chatRequest(message) ==
    [path |-> "/api/chat", message |-> message,
     xApiKey |-> Undefined, authorization |-> Undefined]

\* sendMessage(sessionId, message) up to its await of axios.post: it throws,
\* or the call to the downstream service is under way
sendMessageStart(store, sessionId) ==
    IF ~has(store, sessionId)
    THEN [kind |-> "throw", error |-> "Invalid session"]
    ELSE [kind |-> "await", error |-> "none"]

\* sendMessage from the point where axios.post settles, at time t, to the
\* await of the first addToHistory: axios.post rejects and the catch block
\* throws the error on, or it resolves and the question is appended
sendMessageResume_AppendOnFailure(store, sessionId, message, response, t) ==
    LET a1 == addToHistory(store, sessionId, message, "user", t)
    IN IF ~response.ok
       THEN [kind |-> "throw", error |-> "Request failed", sessions |-> a1.sessions]
       ELSE IF a1.kind = "throw"
       THEN [kind |-> "throw", error |-> a1.error, sessions |-> store]
       ELSE [kind |-> "await", error |-> "none", sessions |-> a1.sessions]
sendMessageResume(store, sessionId, message, response, t) ==
    LET a1 == addToHistory(store, sessionId, message, "user", t)
    IN IF ~response.ok
       THEN [kind |-> "throw", error |-> "Request failed", sessions |-> store]
       ELSE IF a1.kind = "throw"
       THEN [kind |-> "throw", error |-> a1.error, sessions |-> store]
       ELSE [kind |-> "await", error |-> "none", sessions |-> a1.sessions]

\* sendMessage from the second addToHistory, at time t, to its return of
\* response.data
sendMessageReply_AsUser(store, sessionId, response, t) ==
    LET a2 == addToHistory(store, sessionId, response.data, "user", t)
    IN IF a2.kind = "throw"
       THEN [kind |-> "throw", error |-> a2.error, sessions |-> store]
       ELSE [kind |-> "ok", error |-> "none", sessions |-> a2.sessions]
sendMessageReply(store, sessionId, response, t) ==
    LET a2 == addToHistory(store, sessionId, response.data, "assistant", t)
    IN IF a2.kind = "throw"
       THEN [kind |-> "throw", error |-> a2.error, sessions |-> store]
       ELSE [kind |-> "ok", error |-> "none", sessions |-> a2.sessions]

(* ------------------------------------------------------------------ *)
(* RinAgentService: the cached downstream token                         *)
(* ------------------------------------------------------------------ *)
PythonApiKey == "python-api-key"
PythonAccessToken == "python-access-token"

\* the test of ensureValidToken at time t (seconds): authenticate is called
tokenDue_OnlyWhenMissing(a, t) == Falsy(a.token)
tokenDue(a, t) ==
    \/ Falsy(a.token)
    \/ a.tokenExpiry = 0
    \/ t * 1000 >= a.tokenExpiry - 300000

\* authenticate() from the point where axios.post settles, at time t
authenticate_ClearsOnFailure(a, response, t) ==
    IF ~response.ok \/ Falsy(response.accessToken)
    THEN [kind |-> "throw", error |-> "Authentication failed",
          agent |-> [a EXCEPT !.token = Undefined, !.tokenExpiry = 0]]
    ELSE [kind |-> "ok", error |-> "none",
          agent |-> [a EXCEPT !.token = response.accessToken,
                              !.tokenExpiry = t * 1000 + 55 * 60 * 1000,
                              !.tokenAt = t]]
authenticate(a, response, t) ==
    IF ~response.ok \/ Falsy(response.accessToken)
    THEN [kind |-> "throw", error |-> "Authentication failed", agent |-> a]
    ELSE [kind |-> "ok", error |-> "none",
          agent |-> [a EXCEPT !.token = response.accessToken,
                              !.tokenExpiry = t * 1000 + 55 * 60 * 1000,
                              !.tokenAt = t]]

\* the axios.post of initializeSession or sendMessage at time t, with the
\* token ensureValidToken returned: the call as it stands afterwards
agentRequest(a, call, t) ==
    [call EXCEPT !.state = "calling", !.sent = TRUE, !.bearer = a.token,
                 !.xApiKey = PythonApiKey, !.tokenAt = a.tokenAt, !.at = t]

(* ------------------------------------------------------------------ *)
(* State                                                                *)
(* ------------------------------------------------------------------ *)
VARIABLES
    now,      \* Math.floor(Date.now() / 1000)
    uuids,    \* number of crypto.randomUUID() values drawn so far
    issued,   \* number of successful issuing calls so far
    held,     \* the tokens handed to callers, each with the call that issued it
    last      \* the last call or request and its outcome

\* the rate limiters' stores and the last request that went through a route
VARIABLES
    hits,         \* per limiter and key: the requests counted in the window
    windowStart,  \* per limiter: when its current window began (ms)
    admitted,     \* per limiter and key: the requests let through in the window
    deniedAt,     \* per limiter and key: when it last answered 429 (-1: never)
    announced,    \* the sessionIds POST /session/init has answered with so far
    sent,         \* number of requests sent to the routes so far
    resp          \* the last request sent to a route and how it was answered

rateVars == <<hits, windowStart, admitted, deniedAt, announced, sent, resp>>

\* the chat service: its session store and its calls
VARIABLES
    sessions,   \* this.sessions
    pending,    \* the sendMessage calls, by order of arrival
    arrivals,   \* number of sendMessage calls so far
    inits,      \* number of initializeSession calls so far
    appends,    \* number of direct addToHistory calls so far
    appendLog,  \* per session: what has been appended since it was set
    ev          \* the last step of the chat service and its outcome

chatVars == <<sessions, pending, arrivals, inits, appends, appendLog, ev>>

\* a caller of the chat service: the array it keeps from a getHistory call
VARIABLES
    kept

callerVars == <<kept>>

\* RinAgentService (its cached token, its sessions, its calls) and the
\* module state of redisClient.js
VARIABLES
    agent,
    redis

backVars == <<agent, redis>>

serviceVars == <<chatVars, callerVars, backVars>>

tokenVars == <<now, uuids, issued, held, last>>

\* what the token calls leave alone
others == <<rateVars, serviceVars>>

vars == <<tokenVars, rateVars, serviceVars>>

Uuids == <<"uuid-1", "uuid-2", "uuid-3", "uuid-4">>

Endpoints == {"session/init", "chat", "history"}

\* what a caller may put in the apiKey field
ApiKeyInputs ==
    {Clients[c].apiKey : c \in ClientIds}
        \cup {RinApiKey, "wrong-key", Undefined} \cup ObjectPrototypeKeys

\* the secrets held outside the gateway: each client's own, and a stranger's
OutsideSecrets == {Clients[c].secret : c \in ClientIds} \cup {"stranger-secret"}

OtherType(ty) == IF ty = "access" THEN "refresh" ELSE "access"
OtherClient(id) == IF id = "client-a" THEN "client-b" ELSE "client-a"

\* the secret of the client a payload names (none for an unknown client)
SecretOf(p) == ClientsGet(p.clientId).cfg.secret

Signed(token, alg, payload, secret) ==
    [token EXCEPT !.alg = alg, !.payload = payload, !.sig = Hmac(secret, alg, payload)]

\* the payloads a caller can write starting from one it has seen
PayloadVariants(p) ==
    {[p EXCEPT !.type = OtherType(p.type)],
     [p EXCEPT !.clientId = OtherClient(p.clientId)],
     [p EXCEPT !.iss = "other-issuer"],
     [p EXCEPT !.aud = "other-audience"],
     [p EXCEPT !.exp = p.exp + MaxTime]}

\* the tokens a caller can build from a token it holds: the payload rewritten
\* under the old signature; the same payload signed with a secret held outside
\* the gateway; a rewritten payload signed with the secret of the client it
\* names (by that client); another algorithm; no signature at all
TokenVariants(token) ==
    {[token EXCEPT !.payload = q] : q \in PayloadVariants(token.payload)}
      \cup {Signed(token, token.alg, token.payload, k) : k \in OutsideSecrets}
      \cup {Signed(token, token.alg, q, SecretOf(q)) :
                q \in {v \in PayloadVariants(token.payload) : SecretOf(v) # Undefined}}
      \cup {Signed(token, "HS384", token.payload, SecretOf(token.payload)),
            [token EXCEPT !.alg = "none", !.sig = NoSignature],
            [token EXCEPT !.payload = [token.payload EXCEPT !.clientId = "constructor"],
                          !.alg = "none", !.sig = NoSignature]}

HeldTokens == {h.token : h \in held}

\* what a caller may present as a token
TokenInputs == {Malformed} \cup HeldTokens \cup UNION {TokenVariants(tk) : tk \in HeldTokens}

HeaderInputs ==
    {NoHeader} \cup {Bearer(tk) : tk \in TokenInputs} \cup {Basic(tk) : tk \in HeldTokens}

Handed(token, via, key, kind) ==
    [token |-> token, via |-> via, key |-> key, kind |-> kind]

NoCall ==
    [op |-> "none", key |-> Undefined, token |-> Malformed, expected |-> Undefined,
     endpoint |-> Undefined, scheme |-> Undefined, at |-> 0,
     kind |-> "none", claims |-> EmptyPayload, status |-> 0, error |-> "none",
     out |-> {}]

MaxInits == 2
MaxChats == 2
MaxAppends == 1
ChatMaxTime == 1

\* the sendMessage calls are numbered by arrival
ChatCalls == 1 .. MaxChats

\* a call is waiting for the downstream service, resumed (its question is
\* appended and its next step is queued as a microtask), returned or thrown;
\* alone tells that no other call was under way when it arrived
NoChat == [state |-> "none", sessionId |-> Undefined, alone |-> TRUE]

\* request is what a sendMessage step has handed to axios.post, if anything
NoEvent ==
    [op |-> "none", sessionId |-> Undefined, kind |-> "none", error |-> "none",
     call |-> 0, existed |-> FALSE, before |-> <<>>, history |-> <<>>,
     request |-> [path |-> "none", message |-> Undefined,
                  xApiKey |-> Undefined, authorization |-> Undefined]]

\* the caller keeps no array; once it does, the array is the live one of the
\* session, or a detached one when the session object has been replaced
NoKept ==
    [state |-> "none", sessionId |-> Undefined, obtained |-> <<>>,
     content |-> <<>>, edited |-> FALSE]

MaxAgentCalls == 2
AgentClockStep == 1500
AgentMaxTime == 4500

AgentCalls == 1 .. MaxAgentCalls

\* a call of RinAgentService.initializeSession or sendMessage: where it
\* stands, and the downstream request it has issued, if any
NoAgentCall ==
    [op |-> "none", state |-> "none", sessionId |-> Undefined, known |-> FALSE,
     sent |-> FALSE, bearer |-> Undefined, xApiKey |-> Undefined,
     tokenAt |-> 0, at |-> 0, error |-> "none"]

\* new RinAgentService(): no token (tokenExpiry 0 stands for null), no
\* session; tokenAt is the time this.token was last set
AgentStart ==
    [token |-> Undefined, tokenExpiry |-> 0, tokenAt |-> 0,
     sessions |-> EmptySessions,
     calls |-> [c \in AgentCalls |-> NoAgentCall], arrivals |-> 0]

MaxConnects == 3
MaxCloses == 2

\* redisClient.js when the module is loaded: redisClient is null (0); the
\* clients made by new Redis are numbered; pinging and quits are the calls
\* that wait for ping() and quit(); ready tells that a connectToRedis call
\* has returned after a ping that succeeded, and no close has ended since
RedisStart ==
    [client |-> 0, created |-> 0, pinging |-> {}, quits |-> 0, ready |-> FALSE,
     connects |-> 0, closes |-> 0,
     ev |-> [op |-> "none", kind |-> "none", client |-> 0, error |-> "none"]]

\* the chat service after construction
ChatStart ==
    /\ kept = NoKept
    /\ agent = AgentStart
    /\ redis = RedisStart
    /\ sessions = EmptySessions
    /\ pending = [c \in ChatCalls |-> NoChat]
    /\ arrivals = 0
    /\ inits = 0
    /\ appends = 0
    /\ appendLog = [id \in SessionIds |-> <<>>]
    /\ ev = NoEvent

Init ==
    /\ ChatStart
    /\ now = 0
    /\ uuids = 0
    /\ issued = 0
    /\ held = {}
    /\ last = NoCall
    /\ hits = FreshStores
    /\ windowStart = FreshWindows
    /\ admitted = FreshStores
    /\ deniedAt = NeverDenied
    /\ announced = {}
    /\ sent = 0
    /\ resp = NoRequest

(* ------------------------------------------------------------------ *)
(* Actions                                                              *)
(* ------------------------------------------------------------------ *)
\* time passes
Idle == last = NoCall

Tick ==
    /\ Idle
    /\ now + ClockStep <= MaxTime
    /\ now' = now + ClockStep
    /\ UNCHANGED <<uuids, issued, held, last>>
    /\ UNCHANGED others

\* a call of generateToken(apiKey)
GenerateToken ==
    /\ Idle
    /\ UNCHANGED others
    /\ \E apiKey \in ApiKeyInputs :
        LET r == generateToken(apiKey, now)
            out == IF r.kind = "ok"
                   THEN {r.tokens.accessToken, r.tokens.refreshToken} ELSE {}
        IN /\ r.kind = "ok" => issued < MaxIssued
           /\ last' = [NoCall EXCEPT !.op = "generateToken", !.key = apiKey, !.at = now,
                                     !.kind = r.kind, !.error = r.error, !.out = out]
           /\ held' = IF r.kind = "ok"
                      THEN held \cup
                           {Handed(r.tokens.accessToken, "generateToken", apiKey, "access"),
                            Handed(r.tokens.refreshToken, "generateToken", apiKey, "refresh")}
                      ELSE held
           /\ issued' = IF r.kind = "ok" THEN issued + 1 ELSE issued
           /\ UNCHANGED <<now, uuids>>

\* a call of verifyToken(token, expectedType)
VerifyToken ==
    /\ Idle
    /\ UNCHANGED others
    /\ \E token \in TokenInputs, expectedType \in {"access", "refresh"} :
        LET r == verifyToken(token, expectedType, now)
        IN /\ last' = [NoCall EXCEPT !.op = "verifyToken", !.token = token,
                                     !.expected = expectedType, !.at = now,
                                     !.kind = r.kind, !.claims = r.claims]
           /\ UNCHANGED <<now, uuids, issued, held>>

\* a call of refreshTokens(refreshToken)
RefreshTokens ==
    /\ Idle
    /\ UNCHANGED others
    /\ \E token \in TokenInputs :
        LET r == refreshTokens(token, now)
            out == IF r.kind = "ok"
                   THEN {r.tokens.accessToken, r.tokens.refreshToken} ELSE {}
        IN /\ r.kind = "ok" => issued < MaxIssued
           /\ last' = [NoCall EXCEPT !.op = "refreshTokens", !.token = token, !.at = now,
                                     !.kind = r.kind, !.error = r.error, !.out = out]
           /\ held' = IF r.kind = "ok"
                      THEN held \cup
                           {Handed(r.tokens.accessToken, "refreshTokens", Undefined, "access"),
                            Handed(r.tokens.refreshToken, "refreshTokens", Undefined, "refresh")}
                      ELSE held
           /\ issued' = IF r.kind = "ok" THEN issued + 1 ELSE issued
           /\ UNCHANGED <<now, uuids>>

\* a call of verifyRinToken(token)
VerifyRinToken ==
    /\ Idle
    /\ UNCHANGED others
    /\ \E token \in TokenInputs :
        LET r == verifyRinToken(token, now)
        IN /\ last' = [NoCall EXCEPT !.op = "verifyRinToken", !.token = token,
                                     !.expected = "access", !.at = now,
                                     !.kind = r.kind, !.claims = r.claims]
           /\ UNCHANGED <<now, uuids, issued, held>>

\* POST /token with {apiKey} in the body
PostToken ==
    /\ Idle
    /\ UNCHANGED others
    /\ uuids < Len(Uuids)
    /\ \E apiKey \in ApiKeyInputs :
        LET r == postToken(apiKey, Uuids[uuids + 1], now)
        IN /\ r.status = 200 => issued < MaxIssued
           /\ last' = [NoCall EXCEPT !.op = "POST /token", !.key = apiKey, !.at = now,
                                     !.kind = "response", !.status = r.status,
                                     !.error = r.error, !.out = r.accessToken]
           /\ held' = held \cup
                      {Handed(tk, "POST /token", apiKey, "access") : tk \in r.accessToken}
           /\ issued' = IF r.status = 200 THEN issued + 1 ELSE issued
           /\ uuids' = IF r.status = 200 THEN uuids + 1 ELSE uuids
           /\ UNCHANGED now

\* POST /auth of rinRoutes; the body is not read
PostAuth ==
    /\ Idle
    /\ UNCHANGED others
    /\ uuids < Len(Uuids)
    /\ issued < MaxIssued
    /\ LET r == postAuth(Uuids[uuids + 1], now)
       IN /\ last' = [NoCall EXCEPT !.op = "POST /auth", !.at = now,
                                    !.kind = "response", !.status = r.status,
                                    !.error = r.error, !.out = r.accessToken]
          /\ held' = held \cup
                     {Handed(tk, "POST /auth", Undefined, "access") : tk \in r.accessToken}
          /\ issued' = issued + 1
          /\ uuids' = uuids + 1
          /\ UNCHANGED now

\* a request to a protected endpoint reaches the bearer middleware
AuthenticateRinToken ==
    /\ Idle
    /\ UNCHANGED others
    /\ \E endpoint \in Endpoints, authHeader \in HeaderInputs :
        LET r == authenticateRinToken(authHeader, now)
        IN /\ last' = [NoCall EXCEPT !.op = "authenticateRinToken",
                                     !.endpoint = endpoint,
                                     !.scheme = authHeader.scheme,
                                     !.token = authHeader.token, !.at = now,
                                     !.kind = IF r.next THEN "next" ELSE "response",
                                     !.status = r.status, !.error = r.message,
                                     !.claims = r.user]
           /\ UNCHANGED <<now, uuids, issued, held>>

\* the caller has taken the outcome of its call
Return ==
    /\ ~Idle
    /\ last' = NoCall
    /\ UNCHANGED <<now, uuids, issued, held>>
    /\ UNCHANGED others

Next ==
    \/ Tick
    \/ GenerateToken
    \/ VerifyToken
    \/ RefreshTokens
    \/ VerifyRinToken
    \/ PostToken
    \/ PostAuth
    \/ AuthenticateRinToken
    \/ Return

Spec == Init /\ [][Next]_vars

(* ------------------------------------------------------------------ *)
(* Properties                                                           *)
(* ------------------------------------------------------------------ *)
\* the token carries a signature made with this secret over its own content
SignedWith(token, secret) ==
    /\ token.form = "jwt"
    /\ token.alg # "none"
    /\ token.sig = Hmac(secret, token.alg, token.payload)

\* C1: for every registered API key, the access token returned by issue
\* (generateToken, generateRinToken behind POST /token) verifies, with expected
\* type access and at any time before it expires, to claims whose subject is
\* the client the key is registered to and whose type is access.
C1_IssuedAccessTokenVerifies ==
    \A h \in held :
        /\ (/\ h.via = "generateToken"
            /\ h.kind = "access"
            /\ \E c \in ClientIds : Clients[c].apiKey = h.key
            /\ now < h.token.payload.exp)
           => LET r == verifyToken(h.token, "access", now)
              IN /\ r.kind = "claims"
                 /\ r.claims.type = "access"
                 /\ r.claims.clientId \in ClientIds
                 /\ Clients[r.claims.clientId].apiKey = h.key
        /\ (/\ h.via = "POST /token"
            /\ h.key = RinApiKey
            /\ now < h.token.payload.exp)
           => LET r == verifyRinToken(h.token, now)
              IN /\ r.kind = "claims"
                 /\ r.claims.type = "access"
                 /\ r.claims.service = RinService

\* C1 witness: an access token issued by generateToken for a registered key
\* was verified at a later time, before its expiry, and claims came back.
C1_Witness ==
    /\ last.op = "verifyToken"
    /\ last.expected = "access"
    /\ last.kind = "claims"
    /\ last.at > last.token.payload.iat
    /\ \E h \in held : /\ h.token = last.token
                       /\ h.via = "generateToken"
                       /\ h.kind = "access"
                       /\ h.key = Clients[last.claims.clientId].apiKey

\* C2: for every API key that is not in the client registry, issue
\* (generateToken, generateRinToken behind POST /token) fails and produces no
\* access token and no refresh token.
C2_UnregisteredKeyGetsNoToken ==
    /\ (/\ last.op = "generateToken"
        /\ ~ \E c \in ClientIds : Clients[c].apiKey = last.key)
       => (last.kind = "throw" /\ last.out = {})
    /\ (/\ last.op = "POST /token"
        /\ last.key # RinApiKey)
       => (last.status # 200 /\ last.out = {})

\* C3: verifyToken(token, expectedType) returns null whenever the token's type
\* differs from expectedType, in both directions, even when the signature is
\* valid and the token is unexpired.
C3_WrongTypeRejected ==
    (/\ last.op = "verifyToken"
     /\ last.token.payload.type # last.expected)
    => last.kind = "null"

\* C3 witness: an unexpired access token issued by generateToken was checked as
\* a refresh token and null came back.
C3_Witness ==
    /\ last.op = "verifyToken"
    /\ last.expected = "refresh"
    /\ last.kind = "null"
    /\ last.at < last.token.payload.exp
    /\ \E h \in held : /\ h.token = last.token
                       /\ h.via = "generateToken"
                       /\ h.kind = "access"

\* C4: a token whose expiry time has passed is rejected even if its signature
\* is valid: verifyToken and verifyRinToken return null for it, and the bearer
\* middleware answers 401 for it on every protected endpoint, at every time
\* from the expiry instant on.
C4_ExpiredRejected ==
    (/\ last.token.form = "jwt"
     /\ last.at >= last.token.payload.exp)
    => /\ last.op \in {"verifyToken", "verifyRinToken"} => last.kind = "null"
       /\ last.op = "authenticateRinToken"
            => (last.kind = "response" /\ last.status = 401)

\* C4 witness: a token the gateway issued for the registered Rin key, its
\* signature intact, was presented to the middleware at or after its expiry and
\* was answered 401.
C4_Witness ==
    /\ last.op = "authenticateRinToken"
    /\ last.scheme = "Bearer"
    /\ last.status = 401
    /\ last.at >= last.token.payload.exp
    /\ SignedWith(last.token, RinSecret)
    /\ \E h \in held : h.token = last.token /\ h.key = RinApiKey

\* C5: the bearer middleware admits a request if and only if verifyRinToken
\* returns non-null claims for the presented token, and answers 401 otherwise;
\* it never admits a token whose type is not access or whose service is not
\* the registered one.
C5_MiddlewareIsVerifyRinToken ==
    last.op = "authenticateRinToken"
    => /\ last.kind = "next"
            <=> (/\ last.scheme = "Bearer"
                 /\ verifyRinToken(last.token, last.at).kind = "claims")
       /\ last.kind # "next" => last.status = 401
       /\ last.kind = "next"
            => (last.claims.type = "access" /\ last.claims.service = RinService)

\* C6: the token-issuing endpoint POST /auth returns an access token only to
\* a request whose body carries the registered apiKey; any other request
\* receives an error status and no token, so every token it has handed out was
\* issued in response to the registered API key.
C6_TokenOnlyForRegisteredKey ==
    /\ (last.op = "POST /auth" /\ last.key # RinApiKey)
       => (last.status >= 400 /\ last.out = {})
    /\ \A h \in held : h.via = "POST /auth" => h.key = RinApiKey

\* C7: verifyToken returns non-null claims naming client c only if the token's
\* signature was produced with c's own registry secret over the payload
\* returned; a token signed with any other secret that claims subject c is
\* rejected.
C7_PerClientSecret ==
    (last.op = "verifyToken" /\ last.kind = "claims")
    => /\ last.claims.clientId \in ClientIds
       /\ last.claims = last.token.payload
       /\ SignedWith(last.token, Clients[last.claims.clientId].secret)

\* C7 witness: an unexpired token naming one client, of the expected type and
\* signed with the other client's secret, was verified and null came back.
C7_Witness ==
    /\ last.op = "verifyToken"
    /\ last.kind = "null"
    /\ last.token.payload.clientId = "client-a"
    /\ SignedWith(last.token, Clients["client-b"].secret)
    /\ last.token.payload.type = last.expected
    /\ last.expected = "refresh"
    /\ last.at < last.token.payload.exp

C9_VerifyNeverThrows ==
    last.op \in {"verifyToken", "verifyRinToken"} => last.kind \in {"claims", "null"}

\* C9 witness: a call of verifyToken in whose body jwt.verify threw came back
\* with null.
C9_Witness ==
    /\ last.op = "verifyToken"
    /\ last.kind = "null"
    /\ verifyTokenTry(last.token, last.expected, last.at).kind = "throw"

\* a genuine, unexpired refresh token of client c at time t
GenuineRefreshToken(token, c, t) ==
    /\ token.payload.clientId = c
    /\ token.payload.type = "refresh"
    /\ token.alg = RefreshAlgorithm
    /\ SignedWith(token, Clients[c].secret)
    /\ t < token.payload.exp

\* C10: refreshTokens, given an unexpired refresh token of client c, returns a
\* new access/refresh pair made for c from c's registry entry (the new access
\* token verifies with subject c); given anything else (an access token
\* included) it fails with 'Invalid refresh token' and issues no token.
C10_Refresh ==
    last.op = "refreshTokens"
    => IF \E c \in ClientIds : GenuineRefreshToken(last.token, c, last.at)
       THEN /\ last.kind = "ok"
            /\ \E acc \in last.out, ref \in last.out :
                 LET c == last.token.payload.clientId
                     va == verifyToken(acc, "access", last.at)
                     vr == verifyToken(ref, "refresh", last.at)
                 IN /\ va.kind = "claims" /\ va.claims.clientId = c
                    /\ va.claims.scopes = Clients[c].scopes
                    /\ va.claims.exp = last.at + Clients[c].accessTokenExpiry
                    /\ vr.kind = "claims" /\ vr.claims.clientId = c
                    /\ vr.claims.exp = last.at + Clients[c].refreshTokenExpiry
       ELSE /\ last.kind = "throw"
            /\ last.error = "Invalid refresh token"
            /\ last.out = {}

\* C10 witness: a refresh token issued earlier by generateToken was refreshed
\* at a later time and a new pair came back.
C10_Witness ==
    /\ last.op = "refreshTokens"
    /\ last.kind = "ok"
    /\ last.at > last.token.payload.iat
    /\ \E h \in held : h.token = last.token /\ h.via = "generateToken" /\ h.kind = "refresh"

(* ------------------------------------------------------------------ *)
(* Requests through the rate-limited routes                             *)
(* ------------------------------------------------------------------ *)
RateClockStep == 100
RateMaxTime == 300
MaxSent == 3
Headroom == 1

\* a store in which one key of one limiter is Headroom requests short of its
\* limit, as it is after that many requests in the first second
NearLimit(class, key) ==
    [FreshStores EXCEPT ![class][key] = rateLimiters[class].max - Headroom]

\* the gateway has issued one token through POST /auth; the first address may
\* already have used most of one limiter's window
RateInit ==
    /\ ChatStart
    /\ now = 0
    /\ uuids = 1
    /\ issued = 1
    /\ held = {Handed(tk, "POST /auth", Undefined, "access") :
                   tk \in postAuth(Uuids[1], 0).accessToken}
    /\ last = NoCall
    /\ \E h \in {FreshStores} \cup
                {NearLimit(c, "10.0.0.1") : c \in RateClasses} :
          /\ hits = h
          /\ admitted = h
    /\ windowStart = FreshWindows
    /\ deniedAt = NeverDenied
    /\ announced = {}
    /\ sent = 0
    /\ resp = NoRequest

Quiet == resp = NoRequest

\* what a caller of a rate-limited route may send as Authorization
RateHeaderInputs ==
    {NoHeader, Bearer(Malformed)} \cup {Bearer(tk) : tk \in HeldTokens}

RateApiKeyInputs == {RinApiKey, "wrong-key", Undefined}

\* the window of class that holds time t, counted from the start of the process
WindowIndex(class, t) == (t * 1000) \div rateLimiters[class].windowMs

\* time passes; the interval timers of the stores fire
RateTick ==
    /\ Quiet
    /\ UNCHANGED serviceVars
    /\ now + RateClockStep <= RateMaxTime
    /\ now' = now + RateClockStep
    /\ hits' = resetAll(hits, windowStart, now')
    /\ windowStart' = [c \in RateClasses |-> windowAt(c, windowStart[c], now')]
    /\ admitted' = [c \in RateClasses |->
                        IF WindowIndex(c, now') # WindowIndex(c, now)
                        THEN EmptyStore ELSE admitted[c]]
    /\ UNCHANGED <<uuids, issued, held, last, deniedAt, announced, sent, resp>>

\* the sessionIds a caller may name in the path of /history/:sessionId
ParamInputs == {h.token.payload.sessionId : h \in held}

\* what a caller may send as the body of POST /chat: both fields, or one of
\* them absent or empty
ChatBodies ==
    {[sessionId |-> id, message |-> m] :
         id \in ParamInputs, m \in {"hello", "", Undefined}}
    \cup {[sessionId |-> id, message |-> "hello"] : id \in {"", Undefined}}

\* what the handler behind the middlewares answers, given the downstream
\* service's reply
Handled(r, param, reply) ==
    CASE r.route = "session/init" ->
            LET out == sessionInitHandler(r.user, reply)
            IN [r EXCEPT !.status = out.status, !.sessionId = out.sessionId,
                         !.reply = IF reply.ok THEN "ok" ELSE "error",
                         !.repeated = out.sessionId \in announced,
                         !.downstream = TRUE, !.result = "success"]
      [] r.route = "history" ->
            LET out == historyHandler(param, reply)
            IN [r EXCEPT !.status = out.status, !.param = param,
                         !.reply = IF reply.ok THEN "ok" ELSE "error",
                         !.historyOf = out.history,
                         !.downstream = TRUE,
                         !.result = IF reply.ok THEN "success" ELSE "error"]
      [] r.route = "chat" ->
            LET out == chatHandler(r.body, reply)
            IN [r EXCEPT !.status = out.status, !.result = out.result,
                         !.downstream = out.downstream, !.details = out.details,
                         !.reply = IF ~out.downstream THEN "none"
                                   ELSE IF reply.ok THEN "ok" ELSE "error",
                         !.upstream = IF out.downstream THEN reply.status ELSE 0]
      [] OTHER -> r

\* the downstream replies the handler of a route may get
Replies(route, param) ==
    CASE route = "session/init" -> pythonSessionInit
      [] route = "history" -> pythonHistory(param, announced)
      [] route = "chat" -> pythonChat
      [] OTHER -> {NoReply}

\* a request to /session/init, /chat or /history/:sessionId
RouteRequest ==
    /\ Quiet
    /\ UNCHANGED serviceVars
    /\ sent < MaxSent
    /\ \E endpoint \in Endpoints, origin \in Origins, authHeader \in RateHeaderInputs :
        LET req == [ip |-> origin.ip, remoteAddress |-> origin.remoteAddress,
                    authorization |-> authHeader]
            r == protectedRoute(endpoint, req, hits, now)
            seen == [r.resp EXCEPT !.lastDenied = deniedAt[r.resp.class][r.resp.key]]
        IN /\ hits' = r.hits
           /\ deniedAt' = IF r.resp.stage = "limiter"
                          THEN [deniedAt EXCEPT ![r.resp.class][r.resp.key] = now]
                          ELSE deniedAt
           /\ admitted' = IF r.resp.stage = "handler"
                          THEN [admitted EXCEPT ![r.resp.class][r.resp.key] = @ + 1]
                          ELSE admitted
           /\ sent' = sent + 1
           /\ IF r.resp.stage = "handler"
              THEN \E param \in IF endpoint = "history" THEN ParamInputs ELSE {Undefined} :
                   \E body \in IF endpoint = "chat" THEN ChatBodies ELSE {NoBody} :
                   \E reply \in Replies(endpoint, param) :
                      /\ resp' = Handled([seen EXCEPT !.body = body], param, reply)
                      /\ announced' = IF endpoint = "session/init"
                                      THEN announced \cup {resp'.sessionId}
                                      ELSE announced
              ELSE /\ resp' = seen
                   /\ announced' = announced
           /\ UNCHANGED <<now, uuids, issued, held, last, windowStart>>

\* a request to POST /token
TokenRequest ==
    /\ Quiet
    /\ UNCHANGED serviceVars
    /\ sent < MaxSent
    /\ uuids < Len(Uuids)
    /\ \E apiKey \in RateApiKeyInputs, origin \in Origins :
        LET req == [ip |-> origin.ip, remoteAddress |-> origin.remoteAddress,
                    authorization |-> NoHeader]
            r == tokenRoute(apiKey, Uuids[uuids + 1], req, hits, now)
        IN /\ r.out # {} => issued < MaxIssued
           /\ hits' = r.hits
           /\ resp' = [r.resp EXCEPT !.lastDenied = deniedAt[r.resp.class][r.resp.key]]
           /\ deniedAt' = IF r.resp.stage = "limiter"
                          THEN [deniedAt EXCEPT ![r.resp.class][r.resp.key] = now]
                          ELSE deniedAt
           /\ admitted' = IF r.resp.stage = "handler"
                          THEN [admitted EXCEPT ![r.resp.class][r.resp.key] = @ + 1]
                          ELSE admitted
           /\ sent' = sent + 1
           /\ held' = held \cup
                      {Handed(tk, "POST /token", apiKey, "access") : tk \in r.out}
           /\ issued' = IF r.out # {} THEN issued + 1 ELSE issued
           /\ uuids' = IF r.out # {} THEN uuids + 1 ELSE uuids
           /\ UNCHANGED <<now, last, windowStart, announced>>

\* the response has been sent
RateReturn ==
    /\ ~Quiet
    /\ UNCHANGED serviceVars
    /\ resp' = NoRequest
    /\ UNCHANGED <<now, uuids, issued, held, last, hits, windowStart, admitted,
                   deniedAt, announced, sent>>

\* a request to /chat of the router of pythonApi.js
PythonApiChat ==
    /\ Quiet
    /\ \E authHeader \in HeaderInputs, body \in ChatBodies, reply \in pythonChat :
          resp' = pythonApiChat(authHeader, body, reply, now)
    /\ UNCHANGED serviceVars
    /\ UNCHANGED <<now, uuids, issued, held, last, hits, windowStart, admitted,
                   deniedAt, announced, sent>>

\* the router of pythonApi.js: it has no rate limiter, so only the clock and
\* the requests matter
PythonApiNext ==
    \/ PythonApiChat
    \/ RateReturn
    \/ Tick

SpecPythonApi == RateInit /\ [][PythonApiNext]_vars

RateNext ==
    \/ RateTick
    \/ RouteRequest
    \/ TokenRequest
    \/ RateReturn

SpecRate == RateInit /\ [][RateNext]_vars

(* ------------------------------------------------------------------ *)
(* Calls of the chat service                                            *)
(* ------------------------------------------------------------------ *)
\* the continuation of a sendMessage call is queued as a microtask: the event
\* loop runs it before it takes up any other request or I/O callback
Draining_Never == FALSE
Draining == \E call \in ChatCalls : pending[call].state = "resumed"

UnderWay == {call \in ChatCalls : pending[call].state \in {"waiting", "resumed"}}

\* a call of initializeSession()
InitializeSession ==
    /\ ~Draining
    /\ inits < MaxInits
    /\ \E sessionId \in SessionIds :
        LET r == initializeSession(sessions, sessionId, now)
        IN /\ sessions' = r.sessions
           /\ appendLog' = [appendLog EXCEPT ![sessionId] = <<>>]
           /\ kept' = IF kept.state = "live" /\ kept.sessionId = sessionId
                      THEN [kept EXCEPT !.state = "detached",
                                        !.content = sessions[sessionId].history]
                      ELSE kept
           /\ ev' = [NoEvent EXCEPT !.op = "initializeSession",
                                    !.sessionId = r.out.sessionId, !.kind = r.kind,
                                    !.existed = has(sessions, sessionId),
                                    !.before = sessions[sessionId].history]
    /\ inits' = inits + 1
    /\ UNCHANGED <<pending, arrivals, appends>>
    /\ UNCHANGED <<tokenVars, rateVars, backVars>>

\* a call of sendMessage(sessionId, message) arrives and runs to its await
SendMessage ==
    /\ ~Draining
    /\ arrivals < MaxChats
    /\ \E sessionId \in SessionIds :
        LET r == sendMessageStart(sessions, sessionId)
            call == arrivals + 1
        IN /\ pending' = [pending EXCEPT ![call] =
                              [state |-> IF r.kind = "await" THEN "waiting" ELSE "thrown",
                               sessionId |-> sessionId,
                               alone |-> UnderWay = {}]]
           /\ ev' = [NoEvent EXCEPT !.op = "sendMessage", !.sessionId = sessionId,
                                    !.call = call, !.kind = r.kind, !.error = r.error,
                                    !.request = IF r.kind = "await"
                                                THEN chatRequest(Content("question", call))
                                                ELSE @]
    /\ arrivals' = arrivals + 1
    /\ UNCHANGED <<sessions, inits, appends, appendLog>>
    /\ UNCHANGED <<tokenVars, rateVars, callerVars, backVars>>

\* the downstream service answers, or fails, a call that is waiting for it:
\* the I/O callback settles the promise of axios.post and sendMessage runs on
\* to its next await
DownstreamSettles ==
    /\ ~Draining
    /\ \E call \in ChatCalls, ok \in BOOLEAN :
        LET sessionId == pending[call].sessionId
            question == Content("question", call)
            response == [ok |-> ok, data |-> Content("reply", call)]
            r == sendMessageResume(sessions, sessionId, question, response, now)
        IN /\ pending[call].state = "waiting"
           /\ sessions' = r.sessions
           /\ pending' = [pending EXCEPT ![call].state =
                              IF r.kind = "await" THEN "resumed" ELSE "thrown"]
           /\ appendLog' = IF r.kind = "await"
                           THEN [appendLog EXCEPT ![sessionId] =
                                    Append(@, Entry("user", question, now))]
                           ELSE appendLog
           /\ ev' = [NoEvent EXCEPT !.op = "sendMessage", !.sessionId = sessionId,
                                    !.call = call, !.kind = r.kind, !.error = r.error,
                                    !.before = sessions[sessionId].history]
    /\ UNCHANGED <<arrivals, inits, appends>>
    /\ UNCHANGED <<tokenVars, rateVars, callerVars, backVars>>

\* the queued microtask of a resumed call runs: the reply is appended and
\* sendMessage returns
SendMessageReturns ==
    /\ \E call \in ChatCalls :
        LET sessionId == pending[call].sessionId
            response == [ok |-> TRUE, data |-> Content("reply", call)]
            r == sendMessageReply(sessions, sessionId, response, now)
        IN /\ pending[call].state = "resumed"
           /\ sessions' = r.sessions
           /\ pending' = [pending EXCEPT ![call].state =
                              IF r.kind = "ok" THEN "returned" ELSE "thrown"]
           /\ appendLog' = IF r.kind = "ok"
                           THEN [appendLog EXCEPT ![sessionId] =
                                    Append(@, Entry("assistant", response.data, now))]
                           ELSE appendLog
           /\ ev' = [NoEvent EXCEPT !.op = "sendMessage", !.sessionId = sessionId,
                                    !.call = call, !.kind = r.kind, !.error = r.error]
    /\ UNCHANGED <<arrivals, inits, appends>>
    /\ UNCHANGED <<tokenVars, rateVars, callerVars, backVars>>

\* a call of addToHistory(sessionId, message, role) from outside sendMessage
AddToHistory ==
    /\ ~Draining
    /\ appends < MaxAppends
    /\ \E sessionId \in SessionIds, role \in {"user", "assistant"} :
        LET note == Content("note", appends + 1)
            r == addToHistory(sessions, sessionId, note, role, now)
        IN /\ sessions' = r.sessions
           /\ appendLog' = IF r.kind = "ok"
                           THEN [appendLog EXCEPT ![sessionId] =
                                    Append(@, Entry(role, note, now))]
                           ELSE appendLog
           /\ ev' = [NoEvent EXCEPT !.op = "addToHistory", !.sessionId = sessionId,
                                    !.kind = r.kind, !.error = r.error,
                                    !.before = sessions[sessionId].history]
    /\ appends' = appends + 1
    /\ UNCHANGED <<pending, arrivals, inits>>
    /\ UNCHANGED <<tokenVars, rateVars, callerVars, backVars>>

\* a call of getHistory(sessionId)
GetHistory ==
    /\ ~Draining
    /\ \E sessionId \in SessionIds :
        LET r == getHistory(sessions, sessionId)
        IN ev' = [NoEvent EXCEPT !.op = "getHistory", !.sessionId = sessionId,
                                 !.kind = r.kind, !.error = r.error,
                                 !.history = r.history]
    /\ UNCHANGED <<sessions, pending, arrivals, inits, appends, appendLog>>
    /\ UNCHANGED <<tokenVars, rateVars, callerVars, backVars>>

\* the clock that new Date() reads moves on, between any two steps
ChatTick ==
    /\ now < ChatMaxTime
    /\ now' = now + 1
    /\ UNCHANGED <<uuids, issued, held, last>>
    /\ UNCHANGED others

ChatNext ==
    \/ InitializeSession
    \/ SendMessage
    \/ DownstreamSettles
    \/ SendMessageReturns
    \/ AddToHistory
    \/ GetHistory

SpecChat == Init /\ [][ChatNext]_vars

\* the event loop runs every microtask that is queued; nothing in the service
\* makes the downstream service answer, and axios.post is given no timeout
SpecChatFair == Init /\ [][ChatNext]_vars /\ WF_vars(SendMessageReturns)

\* the caller keeps the array that getHistory has just returned: getHistory
\* returns this.sessions.get(sessionId).history itself, not a copy
KeepHistory ==
    /\ ~Draining
    /\ kept.state = "none"
    /\ ev.op = "getHistory"
    /\ ev.kind = "ok"
    /\ kept' = [NoKept EXCEPT !.state = "live", !.sessionId = ev.sessionId,
                              !.obtained = ev.history]
    /\ UNCHANGED <<tokenVars, rateVars, chatVars, backVars>>

\* the caller pushes an entry onto the array it keeps
CallerPush ==
    /\ ~Draining
    /\ kept.state # "none"
    /\ ~kept.edited
    /\ LET entry == Entry("caller", Content("edit", 0), now)
       IN IF kept.state = "live"
          THEN /\ sessions' = [sessions EXCEPT ![kept.sessionId].history = Append(@, entry)]
               /\ kept' = [kept EXCEPT !.edited = TRUE]
          ELSE /\ sessions' = sessions
               /\ kept' = [kept EXCEPT !.edited = TRUE, !.content = Append(@, entry)]
    /\ UNCHANGED <<pending, arrivals, inits, appends, appendLog, ev>>
    /\ UNCHANGED <<tokenVars, rateVars, backVars>>

\* the chat service and a caller that keeps what getHistory returned
SnapshotNext ==
    \/ ChatNext
    \/ KeepHistory
    \/ CallerPush

SpecSnapshot == Init /\ [][SnapshotNext]_vars

(* ------------------------------------------------------------------ *)
(* Calls of RinAgentService                                             *)
(* ------------------------------------------------------------------ *)
\* a call of initializeSession() or sendMessage(sessionId, message) arrives
\* and runs to its first await that leaves the process: the axios.post of
\* authenticate, or its own downstream request
AgentCall ==
    /\ agent.arrivals < MaxAgentCalls
    /\ \E op \in {"initializeSession", "sendMessage"}, sessionId \in SessionIds :
        LET c == agent.arrivals + 1
            call == [NoAgentCall EXCEPT
                        !.op = op,
                        !.sessionId = IF op = "sendMessage" THEN sessionId ELSE Undefined,
                        !.known = op = "sendMessage" /\ has(agent.sessions, sessionId)]
        IN /\ op = "initializeSession" => sessionId = CHOOSE id \in SessionIds : TRUE
           /\ agent' = [agent EXCEPT
                            !.arrivals = c,
                            !.calls[c] = IF tokenDue(agent, now)
                                         THEN [call EXCEPT !.state = "authenticating"]
                                         ELSE agentRequest(agent, call, now)]
    /\ UNCHANGED <<tokenVars, rateVars, chatVars, callerVars, redis>>

\* the token endpoint of the downstream service answers a call that waits in
\* authenticate, or fails; ensureValidToken returns and the call goes on to
\* its downstream request
AuthenticateSettles ==
    /\ \E c \in AgentCalls :
       \E response \in {[ok |-> TRUE, accessToken |-> PythonAccessToken],
                        [ok |-> TRUE, accessToken |-> Undefined],
                        [ok |-> FALSE, accessToken |-> Undefined]} :
        LET r == authenticate(agent, response, now)
        IN /\ agent.calls[c].state = "authenticating"
           /\ agent' = [r.agent EXCEPT
                            !.calls[c] = IF r.kind = "ok"
                                         THEN agentRequest(r.agent, @, now)
                                         ELSE [@ EXCEPT !.state = "thrown",
                                                        !.error = r.error]]
    /\ UNCHANGED <<tokenVars, rateVars, chatVars, callerVars, redis>>

\* the downstream service answers the request of a call, or fails
AgentDownstreamSettles ==
    /\ \E c \in AgentCalls, ok \in BOOLEAN, sessionId \in SessionIds :
        LET call == agent.calls[c]
            a1 == addToHistory(agent.sessions, call.sessionId,
                               Content("question", c), "user", now)
            a2 == addToHistory(a1.sessions, call.sessionId,
                               Content("reply", c), "assistant", now)
        IN /\ call.state = "calling"
           /\ (call.op = "sendMessage" \/ ~ok) =>
                  sessionId = CHOOSE id \in SessionIds : TRUE
           /\ agent' =
                IF ~ok
                THEN [agent EXCEPT !.calls[c].state = "thrown",
                                   !.calls[c].error = "Request failed"]
                ELSE IF call.op = "initializeSession"
                THEN [agent EXCEPT
                         !.sessions = initializeSession(@, sessionId, now).sessions,
                         !.calls[c].state = "returned",
                         !.calls[c].sessionId = sessionId]
                ELSE IF a1.kind = "throw"
                THEN [agent EXCEPT !.calls[c].state = "thrown",
                                   !.calls[c].error = a1.error]
                ELSE [agent EXCEPT !.sessions = a2.sessions,
                                   !.calls[c].state = "returned"]
    /\ UNCHANGED <<tokenVars, rateVars, chatVars, callerVars, redis>>

\* time passes
AgentTick ==
    /\ now + AgentClockStep <= AgentMaxTime
    /\ now' = now + AgentClockStep
    /\ UNCHANGED <<uuids, issued, held, last>>
    /\ UNCHANGED others

AgentNext ==
    \/ AgentCall
    \/ AuthenticateSettles
    \/ AgentDownstreamSettles
    \/ AgentTick

SpecAgent == Init /\ [][AgentNext]_vars

(* ------------------------------------------------------------------ *)
(* redisClient: the module-level client                                 *)
(* ------------------------------------------------------------------ *)
\* a call of connectToRedis(): with no client it makes one, stores it and
\* waits for its ping; with a client it returns that client at once
ConnectToRedis ==
    /\ redis.connects < MaxConnects
    /\ redis' =
         IF redis.client = 0
         THEN [redis EXCEPT !.connects = @ + 1, !.created = @ + 1,
                            !.client = redis.created + 1,
                            !.pinging = @ \cup {redis.created + 1},
                            !.ev = [op |-> "connectToRedis", kind |-> "await",
                                    client |-> redis.created + 1, error |-> "none"]]
         ELSE [redis EXCEPT !.connects = @ + 1,
                            !.ev = [op |-> "connectToRedis", kind |-> "ok",
                                    client |-> redis.client, error |-> "none"]]
    /\ UNCHANGED <<tokenVars, rateVars, chatVars, callerVars, agent>>

\* the ping of a connectToRedis call is answered, and the call returns
\* redisClient as it is by then, or the ping fails and the call throws
PingSettles ==
    /\ \E id \in redis.pinging, ok \in BOOLEAN :
        redis' =
          IF ok
          THEN [redis EXCEPT !.pinging = @ \ {id},
                             !.ready = @ \/ redis.client = id,
                             !.ev = [op |-> "connectToRedis", kind |-> "ok",
                                     client |-> redis.client, error |-> "none"]]
          ELSE [redis EXCEPT !.pinging = @ \ {id},
                             !.ev = [op |-> "connectToRedis", kind |-> "throw",
                                     client |-> redis.client, error |-> "ping failed"]]
    /\ UNCHANGED <<tokenVars, rateVars, chatVars, callerVars, agent>>

\* a call of closeRedisConnection(): with a client it waits for quit()
CloseRedisConnection ==
    /\ redis.closes < MaxCloses
    /\ redis' =
         IF redis.client # 0
         THEN [redis EXCEPT !.closes = @ + 1, !.quits = @ + 1,
                            !.ev = [op |-> "closeRedisConnection", kind |-> "await",
                                    client |-> redis.client, error |-> "none"]]
         ELSE [redis EXCEPT !.closes = @ + 1,
                            !.ev = [op |-> "closeRedisConnection", kind |-> "ok",
                                    client |-> 0, error |-> "none"]]
    /\ UNCHANGED <<tokenVars, rateVars, chatVars, callerVars, agent>>

\* quit() is answered and redisClient is set to null, or quit() fails and
\* the call throws
QuitSettles ==
    /\ redis.quits > 0
    /\ \E ok \in BOOLEAN :
        redis' =
          IF ok
          THEN [redis EXCEPT !.quits = @ - 1, !.client = 0, !.ready = FALSE,
                             !.ev = [op |-> "closeRedisConnection", kind |-> "ok",
                                     client |-> 0, error |-> "none"]]
          ELSE [redis EXCEPT !.quits = @ - 1,
                             !.ev = [op |-> "closeRedisConnection", kind |-> "throw",
                                     client |-> redis.client, error |-> "quit failed"]]
    /\ UNCHANGED <<tokenVars, rateVars, chatVars, callerVars, agent>>

\* a call of client() or of hsetMultiple(key, fields)
UseClient ==
    /\ \E op \in {"client", "hsetMultiple"} :
        redis' =
          IF redis.client = 0
          THEN [redis EXCEPT !.ev = [op |-> op, kind |-> "throw", client |-> 0,
                                     error |-> "Redis client not initialized"]]
          ELSE [redis EXCEPT !.ev = [op |-> op, kind |-> "ok",
                                     client |-> redis.client, error |-> "none"]]
    /\ UNCHANGED <<tokenVars, rateVars, chatVars, callerVars, agent>>

RedisNext ==
    \/ ConnectToRedis
    \/ PingSettles
    \/ CloseRedisConnection
    \/ QuitSettles
    \/ UseClient

SpecRedis == Init /\ [][RedisNext]_vars

\* the service used through initializeSession, sendMessage and getHistory
\* alone, with the clock running
ConversationNext ==
    \/ InitializeSession
    \/ SendMessage
    \/ DownstreamSettles
    \/ SendMessageReturns
    \/ GetHistory
    \/ ChatTick

SpecConversation == Init /\ [][ConversationNext]_vars

(* ------------------------------------------------------------------ *)
(* Rate limiting                                                        *)
(* ------------------------------------------------------------------ *)
MaxOf(class) == rateLimiters[class].max
WindowOf(class) == rateLimiters[class].windowMs

\* C11: with the policies auth 20 per 300000 ms, session 20 per 300000 ms,
\* chat 30 per 60000 ms and history 30 per 60000 ms, the requests one key has
\* had admitted by one limiter within one window never exceed the limiter's
\* maximum, and a request is turned away by a limiter only with status 429 and
\* only when that many have been admitted in the window
C11_AdmittedWithinLimit ==
    /\ MaxOf("auth") = 20 /\ WindowOf("auth") = 300000
    /\ MaxOf("session") = 20 /\ WindowOf("session") = 300000
    /\ MaxOf("chat") = 30 /\ WindowOf("chat") = 60000
    /\ MaxOf("history") = 30 /\ WindowOf("history") = 60000
    /\ \A c \in RateClasses, k \in RateKeys : admitted[c][k] <= MaxOf(c)
    /\ resp.counted =>
          /\ resp.stage = "limiter" <=> resp.before >= MaxOf(resp.class)
          /\ resp.stage = "limiter" =>
                /\ resp.status = 429
                /\ admitted[resp.class][resp.key] = MaxOf(resp.class)

C11_Witness ==
    /\ resp.stage = "limiter"
    /\ resp.status = 429
    /\ resp.class = "auth"
    /\ admitted["auth"][resp.key] = 20

\* C12: a limiter's store never holds counts from a window that has ended: its
\* window is the one that holds the present time, and a key's count is what it
\* had admitted in that window plus what it was refused after the maximum; so
\* a request made a full window or more after the key's last 429 is counted
\* from a cleared store and is admitted while fewer than the maximum have been
C12_ResetAfterWindow ==
    /\ \A c \in RateClasses :
          /\ windowStart[c] = WindowIndex(c, now) * WindowOf(c)
          /\ \A k \in RateKeys :
                \/ hits[c][k] = admitted[c][k]
                \/ admitted[c][k] = MaxOf(c) /\ hits[c][k] > MaxOf(c)
    /\ (/\ resp.counted
        /\ resp.lastDenied >= 0
        /\ resp.at * 1000 >= resp.lastDenied * 1000 + WindowOf(resp.class)) =>
          /\ resp.before < sent
          /\ resp.before < MaxOf(resp.class) => resp.stage = "handler"

C12_Witness ==
    /\ resp.stage = "handler"
    /\ resp.lastDenied >= 0
    /\ resp.at * 1000 >= resp.lastDenied * 1000 + WindowOf(resp.class)
    /\ resp.class = "chat"

\* C13: on every rate-limited route the limiter runs before any token is
\* verified: every request is counted, and one over the limit is answered 429
\* without its token having been verified
C13_LimiterBeforeVerification ==
    resp.route # "none" =>
        /\ resp.counted
        /\ resp.stage = "limiter" => ~resp.verified

\* C14: a request changes the count of its own limiter and key only, and
\* whether it is admitted depends on that count only
C14_IndependentCounters ==
    [][sent' = sent + 1 =>
          /\ \A c \in RateClasses, k \in RateKeys :
                (c # resp'.class \/ k # resp'.key) => hits'[c][k] = hits[c][k]
          /\ resp'.counted =>
                (resp'.stage = "limiter" <=>
                    hits[resp'.class][resp'.key] >= MaxOf(resp'.class))]_vars

\* a request is admitted by a limiter at which another key is over its limit
C14_Witness ==
    /\ resp.stage = "handler"
    /\ \E k \in RateKeys :
          /\ k # resp.key
          /\ hits[resp.class][k] > MaxOf(resp.class)

\* C15: a request that carries an authenticated identity is counted under that
\* identity, not under the network address it came from
C15_KeyIsIdentity ==
    (resp.counted /\ resp.user # EmptyPayload) =>
        /\ resp.key \in {resp.user.sessionId, resp.user.clientId}
        /\ resp.key \notin Addresses

(* ------------------------------------------------------------------ *)
(* Sessions at the gateway                                              *)
(* ------------------------------------------------------------------ *)
\* C16: a history is given only to the identity that owns the session: a
\* history request naming the session of another caller is refused
C16_HistoryOnlyForOwner ==
    (resp.route = "history" /\ resp.status = 200) =>
        resp.historyOf = resp.user.sessionId

\* C18: each successful POST /session/init answers with a sessionId that no
\* earlier successful POST /session/init has answered with, the calls made
\* with the same access token included
C18_FreshSessionIdPerInit ==
    (resp.route = "session/init" /\ resp.status = 200) => ~resp.repeated

(* ------------------------------------------------------------------ *)
(* The session store                                                    *)
(* ------------------------------------------------------------------ *)
\* C17: initializeSession never replaces a session that exists: when the id
\* it takes is already in the store, the session under that id is left as it
\* was
C17_NoSilentOverwrite ==
    (ev.op = "initializeSession" /\ ev.existed) =>
        sessions[ev.sessionId].history = ev.before

\* C19: the history of a session is exactly what the append attempts made on
\* it since it was set have put there, one entry per attempt, in the order the
\* attempts were made
C19_AppendsInOrder ==
    /\ \A id \in SessionIds : sessions[id].history = appendLog[id]
    /\ (ev.op = "addToHistory" /\ ev.kind = "ok") =>
          /\ Len(sessions[ev.sessionId].history) = Len(ev.before) + 1
          /\ SubSeq(sessions[ev.sessionId].history, 1, Len(ev.before)) = ev.before

\* appends made directly and by two sendMessage calls have met in one history
C19_Witness ==
    \E id \in SessionIds :
        /\ Len(sessions[id].history) >= 5
        /\ \E i, j, k \in 1 .. Len(sessions[id].history) :
              /\ i < j /\ j < k
              /\ sessions[id].history[i].content.text = "question"
              /\ sessions[id].history[j].content.text = "note"
              /\ sessions[id].history[k].content.text = "question"

\* C20: the questions of two sendMessage calls for one session stand in its
\* history in the order the calls arrived, whichever reply came first
C20_ArrivalOrder ==
    \A id \in SessionIds :
        \A i, j \in 1 .. Len(sessions[id].history) :
            (/\ i < j
             /\ sessions[id].history[i].content.text = "question"
             /\ sessions[id].history[j].content.text = "question") =>
                sessions[id].history[i].content.n < sessions[id].history[j].content.n

\* C21: in every history the question of a sendMessage call is followed at
\* once by the reply to that same call, and nothing of another call or of a
\* direct append stands between them; a call that has just returned has put
\* its question and its reply at the end of the history, side by side
C21_ReplyFollowsQuestion ==
    /\ \A id \in SessionIds :
          \A i \in 1 .. Len(sessions[id].history) :
              LET h == sessions[id].history
              IN h[i].content.text = "question" =>
                    \/ /\ i < Len(h)
                       /\ h[i + 1].role = "assistant"
                       /\ h[i + 1].content = Content("reply", h[i].content.n)
                    \/ /\ i = Len(h)
                       /\ pending[h[i].content.n].state = "resumed"
    /\ (ev.op = "sendMessage" /\ ev.kind = "ok") =>
          LET h == sessions[ev.sessionId].history
          IN /\ Len(h) >= 2
             /\ h[Len(h) - 1].role = "user"
             /\ h[Len(h) - 1].content = Content("question", ev.call)
             /\ h[Len(h)].role = "assistant"
             /\ h[Len(h)].content = Content("reply", ev.call)

\* two calls for one session were waiting for the downstream service at the
\* same time, and both have returned
C21_Witness ==
    /\ pending[1].state = "returned"
    /\ pending[2].state = "returned"
    /\ pending[1].sessionId = pending[2].sessionId
    /\ ~pending[2].alone
    /\ Len(sessions[pending[1].sessionId].history) >= 4

\* C22: when the downstream call of sendMessage fails, the call throws, the
\* history of the session is what it was before the failure, and no entry of
\* a failed call is ever in a history
C22_FailedTurnLeavesHistory ==
    /\ (ev.op = "sendMessage" /\ ev.kind = "throw" /\ ev.error = "Request failed") =>
          /\ pending[ev.call].state = "thrown"
          /\ sessions[ev.sessionId].history = ev.before
    /\ \A call \in ChatCalls :
          pending[call].state = "thrown" =>
              \A id \in SessionIds :
                  \A i \in 1 .. Len(sessions[id].history) :
                      sessions[id].history[i].content.n = call =>
                          sessions[id].history[i].content.text = "note"

\* the downstream call of a turn has failed on a session that had a history
C22_Witness ==
    /\ ev.op = "sendMessage"
    /\ ev.kind = "throw"
    /\ ev.error = "Request failed"
    /\ Len(ev.before) >= 2

\* C26: getHistory and addToHistory called with a sessionId that is not in
\* the store throw 'Invalid session', and the store is left as it was: no
\* session is created and no history changes
C26_UnknownSessionRejected ==
    [][(ev'.op \in {"getHistory", "addToHistory"} /\ ~has(sessions, ev'.sessionId)) =>
          /\ ev'.kind = "throw"
          /\ ev'.error = "Invalid session"
          /\ sessions' = sessions]_vars

\* getHistory was refused for an unknown sessionId while another session had
\* a history
C26_Witness ==
    /\ ev.op = "getHistory"
    /\ ev.kind = "throw"
    /\ ~has(sessions, ev.sessionId)
    /\ \E id \in SessionIds : Len(sessions[id].history) >= 2

\* what the calls 1 .. n that have returned on session id have said, in the
\* order of the calls
RECURSIVE Transcript(_, _)
Transcript(id, n) ==
    IF n = 0
    THEN <<>>
    ELSE Transcript(id, n - 1) \o
         (IF pending[n].sessionId = id /\ pending[n].state = "returned"
          THEN <<[role |-> "user", content |-> Content("question", n)],
                 [role |-> "assistant", content |-> Content("reply", n)]>>
          ELSE <<>>)

\* one session was initialised, each call arrived after the one before it
\* had ended, and no call has failed
Sequential ==
    /\ inits = 1
    /\ ~Draining
    /\ \A call \in ChatCalls : pending[call].alone /\ pending[call].state # "thrown"

\* C27: after one initializeSession and sendMessage calls made one after the
\* other, none of which failed, getHistory returns the question and the reply
\* of each call in the order of the calls, user and assistant in turn, with
\* timestamps that never decrease
C27_SequentialTranscript ==
    Sequential =>
        \A id \in SessionIds :
            has(sessions, id) =>
                LET h == getHistory(sessions, id).history
                IN /\ [i \in 1 .. Len(h) |-> [role |-> h[i].role, content |-> h[i].content]]
                         = Transcript(id, arrivals)
                   /\ \A i \in 1 .. Len(h) :
                         h[i].role = (IF i % 2 = 1 THEN "user" ELSE "assistant")
                   /\ \A i, j \in 1 .. Len(h) :
                         i <= j => h[i].timestamp <= h[j].timestamp

\* getHistory has returned the four entries of two turns made in sequence,
\* the last one later than the first
C27_Witness ==
    /\ Sequential
    /\ arrivals >= 2
    /\ ev.op = "getHistory"
    /\ ev.kind = "ok"
    /\ Len(ev.history) = 4
    /\ ev.history = sessions[ev.sessionId].history
    /\ ev.history[1].timestamp < ev.history[4].timestamp

\* C24: every sendMessage call that waits for the downstream service ends,
\* by returning or by throwing, whether the downstream service answers or not
C24_EveryCallEnds ==
    \A call \in ChatCalls :
        (pending[call].state = "waiting") ~>
            (pending[call].state \in {"returned", "thrown"})

(* ------------------------------------------------------------------ *)
(* The handlers of the gateway routes                                   *)
(* ------------------------------------------------------------------ *)
\* C23: when the downstream service fails to take the notification of
\* POST /session/init, the request that reached the handler is still answered
\* with success and with the sessionId of its token, which is not empty
C23_SoftFailSessionInit ==
    (resp.route = "session/init" /\ resp.stage = "handler" /\ resp.reply = "error") =>
        /\ resp.status = 200
        /\ resp.result = "success"
        /\ resp.sessionId = resp.user.sessionId
        /\ ~Falsy(resp.sessionId)

\* the notification of a session failed downstream
C23_Witness ==
    /\ resp.route = "session/init"
    /\ resp.stage = "handler"
    /\ resp.reply = "error"
    /\ resp.downstream

\* C25: when the downstream call of POST /chat fails, the response carries
\* the status code of the downstream response when there was one, and 500
\* when there was none
C25_DownstreamStatusCarried ==
    (resp.route = "chat" /\ resp.downstream /\ resp.reply = "error") =>
        resp.status = (IF resp.upstream # 0 THEN resp.upstream ELSE 500)

\* a token is from the token endpoint when POST /token handed it out for the
\* registered Rin API key
FromTokenEndpoint(authHeader) ==
    \E h \in held :
        /\ h.via = "POST /token"
        /\ h.key = RinApiKey
        /\ authHeader = Bearer(h.token)

C29_NoCallWithoutValidation ==
    resp.downstream =>
        /\ resp.stage = "handler"
        /\ ~Falsy(resp.body.sessionId)
        /\ ~Falsy(resp.body.message)

\* C30: POST /chat of rinRoutes.js, past the bearer middleware and the
\* limiter, with a body whose sessionId or message is absent or empty, is
\* answered 400 with an error result and no call to the downstream service
C30_MissingFieldsRejected ==
    (/\ resp.route = "chat"
     /\ resp.stage = "handler"
     /\ (Falsy(resp.body.sessionId) \/ Falsy(resp.body.message))) =>
        /\ resp.status = 400
        /\ resp.result = "error"
        /\ ~resp.downstream
        /\ resp.reply = "none"

\* a chat request with an empty message reached the handler
C30_Witness ==
    /\ resp.route = "chat"
    /\ resp.stage = "handler"
    /\ ~Falsy(resp.body.sessionId)
    /\ resp.body.message = ""

\* C31: every request handed to the downstream service carries the
\* service credential in X-API-Key, and the credential is not the caller's
\* bearer token
C31_ServiceCredentialSent ==
    ev.request.path # "none" =>
        /\ ~Falsy(ev.request.xApiKey)
        /\ ev.request.xApiKey # ev.request.authorization

\* C32: an error response of a gateway route carries its status and its fixed
\* message only: nothing of the downstream error detail or of the exception
\* message is in it
C32_NoErrorDetails ==
    (resp.route \in Endpoints /\ resp.result = "error") => resp.details = Undefined

\* C34: the sessionId that POST /chat sends to the downstream service is the
\* sessionId claim of the token the request was authenticated with
C34_ChatBoundToToken ==
    (resp.route = "chat" /\ resp.downstream) =>
        resp.body.sessionId = resp.user.sessionId

\* C33: the sequence a caller got from getHistory stays what it was when it
\* was returned, whatever is appended afterwards, and what the caller puts
\* into it is not in the stored history
C33_HistoryIsSnapshot ==
    /\ kept.state = "live" =>
          (kept.edited \/ sessions[kept.sessionId].history = kept.obtained)
    /\ \A id \in SessionIds :
          \A i \in 1 .. Len(sessions[id].history) :
              sessions[id].history[i].role # "caller"

(* ------------------------------------------------------------------ *)
(* RinAgentService                                                      *)
(* ------------------------------------------------------------------ *)
\* C35: a sendMessage call for a sessionId that was not in the store when
\* it arrived issues no downstream request
C35_ExistenceCheckedFirst ==
    \A c \in AgentCalls :
        (agent.calls[c].op = "sendMessage" /\ agent.calls[c].sent) =>
            agent.calls[c].known

\* C36: every downstream request of RinAgentService carries a bearer token
\* that is not null and that authenticate stored less than 50 minutes (the
\* 55 minutes less the 300000 ms margin) before the request was issued
C36_FreshTokenOnEveryCall ==
    \A c \in AgentCalls :
        agent.calls[c].sent =>
            /\ ~Falsy(agent.calls[c].bearer)
            /\ (agent.calls[c].at - agent.calls[c].tokenAt) * 1000
                   < 55 * 60 * 1000 - 300000

\* a request went out with a token that an earlier call had cached
C36_Witness ==
    \E c, d \in AgentCalls :
        /\ c # d
        /\ agent.calls[c].sent
        /\ agent.calls[d].sent
        /\ agent.calls[c].at > agent.calls[c].tokenAt
        /\ agent.calls[d].tokenAt = agent.calls[c].tokenAt

\* C37: at most one call is waiting in authenticate at any time
C37_OneAuthenticateInFlight ==
    Cardinality({c \in AgentCalls : agent.calls[c].state = "authenticating"}) <= 1

\* C38: when authenticate fails, the cached token and its expiry are what
\* they were, no session is set, and the call ends with the authentication
\* error without having issued a downstream request
C38_FailedAuthenticateChangesNothing ==
    [][\A c \in AgentCalls :
          (agent.calls[c].state = "authenticating" /\ agent'.calls[c].state = "thrown") =>
              /\ agent'.token = agent.token
              /\ agent'.tokenExpiry = agent.tokenExpiry
              /\ agent'.sessions = agent.sessions
              /\ agent'.calls[c].error = "Authentication failed"
              /\ ~agent'.calls[c].sent]_vars

\* authenticate failed for one call while a token was cached and a session
\* was in the store
C38_Witness ==
    /\ ~Falsy(agent.token)
    /\ \E id \in SessionIds : has(agent.sessions, id)
    /\ \E c \in AgentCalls :
          /\ agent.calls[c].state = "thrown"
          /\ agent.calls[c].error = "Authentication failed"
          /\ ~agent.calls[c].sent

(* ------------------------------------------------------------------ *)
(* redisClient                                                          *)
(* ------------------------------------------------------------------ *)
\* C39: with no connectToRedis or closeRedisConnection call under way,
\* client() and hsetMultiple get a client exactly when a connectToRedis call
\* has returned after a successful ping since the last close ended, and
\* throw 'Redis client not initialized' otherwise; and a connectToRedis call
\* that returns a client returns one whose ping has succeeded
C39_ClientOnlyAfterTestedConnect ==
    /\ (/\ redis.ev.op \in {"client", "hsetMultiple"}
        /\ redis.pinging = {}
        /\ redis.quits = 0) =>
          IF redis.ready
          THEN redis.ev.kind = "ok"
          ELSE redis.ev.kind = "throw" /\ redis.ev.error = "Redis client not initialized"
    /\ (/\ redis.ev.op = "connectToRedis"
        /\ redis.ev.kind = "ok"
        /\ redis.ev.client # 0
        /\ redis.pinging = {}
        /\ redis.quits = 0) => redis.ready

====
